---- MODULE Spec2Model ----
(***************************************************************************)
(* Model of uefisettings: the HII varstore write path (change_value,       *)
(* write_at_offset and its three guards), the varstore read path, and the  *)
(* iLO Blobstore2 transport with the REST retry loop.                      *)
(*                                                                         *)
(* Bytes are naturals 0..255, buffers and files are sequences of bytes     *)
(* (1-based here, 0-based in the source), decimal texts are sequences of   *)
(* one-character strings.  Integers of the model stay below 2^31.          *)
(***************************************************************************)
EXTENDS Integers, Sequences, FiniteSets, TLC

(***************************************************************************)
(* Bounds of the model.                                                    *)
(***************************************************************************)
\* number of write_at_offset callers (processes or calls) that may interleave
NumProcs == 2
\* number of set_all_attrs calls made through the macros before a write
MaxAttrOps == 2
\* number of IFR operations a form package of the model holds, root included
MaxNodes == 5
\* number of package lists in a database of the model
MaxLists == 2
\* number of string block runs read from a Strings package
MaxBlocks == 4
\* number of Skip2 blocks of count 0xFFFF in the long run of the model
LongRun == 32769
\* declared size S of the varstore (VarStore.size); the file is 4 + S bytes
VarStoreSize == 8
\* largest var_store_info offset a question of the model carries
MaxInfo == 9

\* sizes the transport library reports (ilorest_chif.so is closed source)
MaxBufferSize == 48
RestResponseFixedSize == 20
ResponseHeaderBlobSize == 12
ReadRequestSize == 4
ReadResponseSize == 20
WriteRequestSize == 4
ImmediateRequestSize == 3
\* largest blob size a get_info reply of the model announces
MaxBlob == 3
\* largest data_len a rest reply of the model announces
MaxDataLen == 9
\* replies reporting 0 bytes that the model follows in one read loop, all
\* before the first byte is read (the loop treats them alike at any offset)
MaxStalls == 1

(***************************************************************************)
(* Program constants.                                                      *)
(***************************************************************************)
FS_IMMUTABLE_FL == 16
FS_NODUMP_FL == 64
MAX_ALLOWED_REQUEST_ATTEMPTS == 10
CHIF_STATUS_CODE_SUCCESS == 0
Success == 0
NotModified == 20
ImmediateResponse == 0
FragmentedResponse == 1

Procs == 1..NumProcs
Byte == 0..255

(***************************************************************************)
(* Byte-level helpers: what binrw and std::io::Cursor do.                  *)
(***************************************************************************)
RECURSIVE ToLeBytes(_, _)
\* v.write_options(.., Endian::Little, ()) for an unsigned integer of w bytes
ToLeBytes(v, w) ==
    IF w = 0 THEN <<>> ELSE <<v % 256>> \o ToLeBytes(v \div 256, w - 1)

RECURSIVE LeValue(_)
LeValue(bytes) ==
    IF bytes = <<>> THEN 0 ELSE Head(bytes) + 256 * LeValue(Tail(bytes))

\* a value of 2^31 or more, which the integers of the model do not hold
TooBig == -1

\* read_ne / read_le of an unsigned integer on a little-endian (x86) build
FromLeBytes(bytes) ==
    IF \E i \in 1..Len(bytes) : bytes[i] # 0 /\ (i > 4 \/ (i = 4 /\ bytes[i] >= 128))
    THEN TooBig
    ELSE LeValue(bytes)

Zeros(n) == [i \in 1..n |-> 0]

\* Write for Cursor<Vec<u8>>: a position past the end zero-fills the gap,
\* bytes inside the vector are overwritten, bytes past its end are appended.
CursorWrite(vec, pos, bytes) ==
    LET padded == IF pos > Len(vec) THEN vec \o Zeros(pos - Len(vec)) ELSE vec
        stop == pos + Len(bytes)
    IN  SubSeq(padded, 1, pos) \o bytes \o
        (IF stop < Len(padded) THEN SubSeq(padded, stop + 1, Len(padded)) ELSE <<>>)

\* width in bytes of a TypeValue / RangeType variant
WidthOf(type) ==
    CASE type = "NumSize8" -> 1
      [] type = "NumSize16" -> 2
      [] type = "NumSize32" -> 4
      [] type = "NumSize64" -> 8
      [] OTHER -> 0

NumType(w) ==
    CASE w = 1 -> "NumSize8"
      [] w = 2 -> "NumSize16"
      [] w = 4 -> "NumSize32"
      [] OTHER -> "NumSize64"

\* extract_efi_data::<T>: seek 4 + offset into the bytes, read a T of w bytes;
\* "Err" when fewer than w bytes are left.
extract_efi_data(offset, bytes, w) ==
    IF 4 + offset + w > Len(bytes)
    THEN [ok |-> FALSE, val |-> 0]
    ELSE [ok |-> TRUE, val |-> FromLeBytes(SubSeq(bytes, 4 + offset + 1, 4 + offset + w))]

(***************************************************************************)
(* Decimal texts: str::parse::<uN>() and format!("{a}").                   *)
(***************************************************************************)
Digits == <<"0", "1", "2", "3", "4", "5", "6", "7", "8", "9">>

DigitVal(c) == (CHOOSE i \in 1..10 : Digits[i] = c) - 1

IsDigit(c) == \E i \in 1..10 : Digits[i] = c

RECURSIVE DigitsVal(_, _)
DigitsVal(s, acc) ==
    IF s = <<>> THEN acc ELSE DigitsVal(Tail(s), 10 * acc + DigitVal(Head(s)))

\* largest value of an unsigned integer of w bytes; the texts of the model have
\* at most 5 digits, so a u32 or u64 never overflows on them
UMax(w) == IF w = 1 THEN 255 ELSE IF w = 2 THEN 65535 ELSE 99999

\* <uN as FromStr>::from_str: an optional leading "+", then at least one
\* digit and only digits; a value above uN::MAX is an error
ParseUnsigned(s, w) ==
    LET body == IF s # <<>> /\ Head(s) = "+" THEN Tail(s) ELSE s
    IN  IF body = <<>> \/ \E i \in 1..Len(body) : ~IsDigit(body[i])
        THEN [ok |-> FALSE, val |-> 0]
        ELSE IF DigitsVal(body, 0) > UMax(w)
        THEN [ok |-> FALSE, val |-> 0]
        ELSE [ok |-> TRUE, val |-> DigitsVal(body, 0)]

RECURSIVE ToDecimal(_)
\* format!("{a}") of an unsigned integer
ToDecimal(v) ==
    IF v = TooBig THEN <<"2^31 or more">>
    ELSE IF v < 10 THEN <<Digits[v + 1]>> ELSE ToDecimal(v \div 10) \o <<Digits[(v % 10) + 1]>>

Unknown == <<"U", "n", "k", "n", "o", "w", "n">>

(***************************************************************************)
(* Texts: eq_ignore_ascii_case, to_ascii_lowercase and trim.               *)
(***************************************************************************)
UpperCase ==
    <<"A", "B", "C", "D", "E", "F", "G", "H", "I", "J", "K", "L", "M",
      "N", "O", "P", "Q", "R", "S", "T", "U", "V", "W", "X", "Y", "Z">>

LowerCase ==
    <<"a", "b", "c", "d", "e", "f", "g", "h", "i", "j", "k", "l", "m",
      "n", "o", "p", "q", "r", "s", "t", "u", "v", "w", "x", "y", "z">>

\* u8::to_ascii_lowercase on one character
LowerChar(c) ==
    IF \E i \in 1..Len(UpperCase) : UpperCase[i] = c
    THEN LowerCase[CHOOSE i \in 1..Len(UpperCase) : UpperCase[i] = c]
    ELSE c

\* str::to_ascii_lowercase
to_ascii_lowercase(s) == [i \in 1..Len(s) |-> LowerChar(s[i])]

\* str::eq_ignore_ascii_case
eq_ignore_ascii_case(a, b) ==
    Len(a) = Len(b) /\ \A i \in 1..Len(a) : LowerChar(a[i]) = LowerChar(b[i])

RECURSIVE TrimStart(_)
TrimStart(s) == IF s # <<>> /\ Head(s) = " " THEN TrimStart(Tail(s)) ELSE s

RECURSIVE TrimEnd(_)
TrimEnd(s) ==
    IF s # <<>> /\ s[Len(s)] = " " THEN TrimEnd(SubSeq(s, 1, Len(s) - 1)) ELSE s

\* str::trim
trim(s) == TrimEnd(TrimStart(s))

(***************************************************************************)
(* File attribute flags: the i32 of get_all_attrs / set_all_attrs and the  *)
(* |= and &= ! of set_attrs! and clear_attrs!.                              *)
(***************************************************************************)
RECURSIVE BitOr(_, _)
BitOr(a, b) ==
    IF a = 0 THEN b
    ELSE IF b = 0 THEN a
    ELSE (IF a % 2 = 1 \/ b % 2 = 1 THEN 1 ELSE 0) + 2 * BitOr(a \div 2, b \div 2)

BitAndNot_Zero(a, b) == 0

RECURSIVE BitAndNot(_, _)
\* a & !b
BitAndNot(a, b) ==
    IF a = 0 THEN 0
    ELSE (IF a % 2 = 1 /\ b % 2 = 0 THEN 1 ELSE 0) + 2 * BitAndNot(a \div 2, b \div 2)

RECURSIVE set_attrs(_, _)
\* set_attrs!: new_attrs |= flag for every flag named; the value handed to
\* set_all_attrs
set_attrs(current_attrs, flags) ==
    IF flags = <<>> THEN current_attrs
    ELSE set_attrs(BitOr(current_attrs, Head(flags)), Tail(flags))

RECURSIVE clear_attrs(_, _)
\* clear_attrs!: new_attrs &= !flag for every flag named
clear_attrs(current_attrs, flags) ==
    IF flags = <<>> THEN current_attrs
    ELSE clear_attrs(BitAndNot(current_attrs, Head(flags)), Tail(flags))

\* the low bits of the flags word, FS_SECRM_FL (1) to FS_NODUMP_FL (0x40)
FlagBits == {1, 2, 4, 8, FS_IMMUTABLE_FL, 32, FS_NODUMP_FL}

RECURSIVE IntOf(_)
\* the flags word whose set bits are the members of the set
IntOf(bits) ==
    IF bits = {} THEN 0
    ELSE LET b == CHOOSE x \in bits : TRUE IN b + IntOf(bits \ {b})

\* the set bits of a flags word
BitsOf(n) == {b \in FlagBits : (n \div b) % 2 = 1}

(***************************************************************************)
(* State.                                                                  *)
(***************************************************************************)
VARIABLES
    \* HII write path
    q,              \* the QuestionDescriptor the callers change
    texts,          \* the new_value texts a caller may pass
    pc,             \* position of each caller
    new_value,      \* the text each caller passed to change_value
    arg,            \* (offset, data) each caller passed to write_at_offset
    wres,           \* result write_at_offset is about to return
    result,         \* result of change_value
    fd,             \* FileLock.file_descriptor of each caller's lock object
    lock_holder,    \* caller whose descriptor holds the flock on /run/lock/efibootmgr-remount
    mount_flags,    \* flags of the efivarfs mount, as /proc/mounts shows them
    attrs,          \* attribute flags (bit set) of the varstore file
    file,           \* content of the varstore file
    file_contents,  \* the bytes each caller read under the lock
    cursor,         \* the caller's buffer after the value was written into it
    efifs,          \* the caller's EfivarsMountGuard
    immutability_attribute_guard, \* the caller's EfivarsImmutabilityGuard
    pre,            \* mount and attribute state when the caller took the lock
    post,           \* mount and attribute state when the caller returned
    log,            \* guard acquisitions and releases of each caller, in order
    release_failed, \* the guards of the caller whose release step failed (and was logged)
    exit_res,       \* the result write_at_offset had when its body was left
    answer,         \* the value a caller read back after its change_value
    desc,           \* the QuestionDescriptor each caller got from find_question
    attr_op,        \* the last set_attrs! / clear_attrs! that reached set_all_attrs
    attr_writes     \* number of set_all_attrs ioctls on the varstore file so far

hiiVars == <<q, texts, pc, new_value, arg, wres, result, fd, lock_holder, mount_flags,
             attrs, file, file_contents, cursor, efifs, immutability_attribute_guard,
             pre, post, log, release_failed, exit_res, answer, desc,
             attr_op, attr_writes>>

\* iLO transport and REST retry loop
VARIABLES
    rpc,              \* position of RestClient::exec / Transport::make_request
    request_len,      \* request.len()
    current_try,      \* the loop variable of exec
    attempts,         \* number of make_request calls of this exec so far
    resp,             \* result of the latest make_request
    final,            \* what exec returned
    last,             \* the latest packet exchange of the current attempt
    prior_failed,     \* an earlier exchange of this attempt failed its checks
    parsed_rest_resp, \* IloFixedResponse parsed from it
    blobsize,         \* the size get_blob_size returned
    bytes_read,       \* read_multi_packet's counter
    read_data_buffer, \* read_multi_packet's result so far
    bytes_written,    \* write_multi_packet's counter
    sent              \* the packets exchanged in the attempt under way, in order

restVars == <<rpc, request_len, current_try, attempts, resp, final, last, prior_failed,
              parsed_rest_resp, blobsize, bytes_read, read_data_buffer,
              bytes_written, sent>>

\* HII database parsing and translation
VARIABLES
    nodes,             \* the IFROperation nodes of the form package tree, root first
    current_scope,     \* index of the node new operations are attached to
    ifr_status,        \* "off", "parsing", "done" (Ok(root)) or "err"
    ifr_input,         \* the operations read from the package cursor so far
    db_input,          \* the package lists of the database read_db is given
    db_pos,            \* number of package lists read_db has gone through
    db_strings,        \* ParsedHiiDB.strings: GUID -> number of string maps
    db_forms,          \* ParsedHiiDB.forms: GUID -> number of form roots
    db_status,         \* "off", "reading", "done" (Ok(res)) or "err"
    str_blocks,        \* the string blocks handle_string_package has read
    string_id_current, \* the id the next string gets
    string_map,        \* id -> index of the block whose string it holds
    str_status,        \* "off", "parsing", "done" (Ok(string_map)) or "err"
    tr_question,       \* question passed to the translation functions
    tr_answer,         \* answer passed to the translation functions
    tr_out             \* what the translation function called last returned

\* length fields of the HII database structures
VARIABLES
    len_length,        \* the length field read
    len_avail,         \* bytes left in the cursor after the fixed fields
    len_checks,        \* whether the build has overflow checks
    len_out            \* outcome of the read, NoRead before it

lenVars == <<len_length, len_avail, len_checks, len_out>>

\* the CHIF handle over the calls of RestClient::exec
VARIABLES
    chif_pc,           \* position in exec, "idle" between two calls
    chif_execs,        \* number of exec calls started
    chif_handle,       \* IloRestChif.handle of the running exec, NullHandle if none
    chif_calls,        \* the ChifCreate and ChifClose calls made, in order
    chif_result        \* what the last exec returned: "none", "Ok" or "Err"

chifVars == <<chif_pc, chif_execs, chif_handle, chif_calls, chif_result>>

\* HiiBackend::set over the form packages of the database
VARIABLES
    set_db,            \* parsed_db.forms in iteration order, with the strings of each GUID
    set_list,          \* index of the package list the outer loop is at
    set_form,          \* index of the form package the inner loop is at
    set_written,       \* the <<list, form>> whose varstore this call has modified
    set_resp,          \* number of SetResponse entries pushed
    set_status         \* "off", "running", "Ok" or the error returned

setVars == <<set_db, set_list, set_form, set_written, set_resp, set_status>>

extVars == <<lenVars, chifVars, setVars>>

libVars == <<nodes, current_scope, ifr_status, ifr_input, db_input, db_pos, db_strings, db_forms,
             db_status, str_blocks, string_id_current, string_map, str_status,
             tr_question, tr_answer, tr_out, extVars>>

vars == <<hiiVars, restVars, libVars>>

\* no form package being parsed
IfrIdle ==
    /\ nodes = <<>>
    /\ current_scope = 0
    /\ ifr_status = "off"
    /\ ifr_input = <<>>

\* no database being read
DbIdle ==
    /\ db_input = <<>>
    /\ db_pos = 0
    /\ db_strings = <<>>
    /\ db_forms = <<>>
    /\ db_status = "off"

\* no string package being parsed
StrIdle ==
    /\ str_blocks = <<>>
    /\ string_id_current = 1
    /\ string_map = <<>>
    /\ str_status = "off"

NoTranslation == [fn |-> "none", result |-> <<>>]

\* no translation asked for
TrIdle ==
    /\ tr_question = <<>>
    /\ tr_answer = <<>>
    /\ tr_out = NoTranslation

NoRead == [status |-> "none", count |-> 0]

\* no length field being read
LenIdle ==
    /\ len_length = 0
    /\ len_avail = 0
    /\ len_checks = FALSE
    /\ len_out = NoRead

NullHandle == 0

\* no exec called
ChifIdle ==
    /\ chif_pc = "idle"
    /\ chif_execs = 0
    /\ chif_handle = NullHandle
    /\ chif_calls = <<>>
    /\ chif_result = "none"

\* set not called
SetIdle ==
    /\ set_db = <<>>
    /\ set_list = 0
    /\ set_form = 0
    /\ set_written = {}
    /\ set_resp = 0
    /\ set_status = "off"

ExtIdle == LenIdle /\ ChifIdle /\ SetIdle

LibIdle == IfrIdle /\ DbIdle /\ StrIdle /\ TrIdle /\ ExtIdle

(***************************************************************************)
(* Inputs.                                                                 *)
(***************************************************************************)
Widths == {1, 2, 4, 8}

\* Numeric questions (handle_numeric: width and max_value from the range)
NumericQuestions ==
    [opcode : {"Numeric"}, width : Widths, max_value : {100}, var_store_info : 0..MaxInfo]
    \cup {[opcode |-> "Numeric", width |-> w, max_value |-> UMax(w), var_store_info |-> i] :
            w \in Widths, i \in 0..MaxInfo}

\* CheckBox questions (handle_checkbox: read as u8, max_value NumSize8(1))
CheckBoxQuestions ==
    [opcode : {"CheckBox"}, width : {1}, max_value : {1}, var_store_info : 0..MaxInfo]

\* the children of a FormSet that find_corresponding_varstore looks at
VarStoreChild(kind, id) == [kind |-> kind, var_store_id |-> id]

\* the var_store_id of the questions of the model
StoreId == 1

\* a FormSet that declares the question's varstore
PresentFormSet == <<VarStoreChild("VarStoreEfi", StoreId)>>

\* FormSets in which no VarStore/VarStoreEfi child has the question's id
MissingFormSets ==
    { <<VarStoreChild("Form", 0)>>,
      <<VarStoreChild("VarStore", StoreId + 1), VarStoreChild("Form", 0)>> }

\* a question with the FormSet it lies in and its OneOfOption children
WithStore(qq, formset, options) ==
    [opcode |-> qq.opcode, width |-> qq.width, max_value |-> qq.max_value,
     var_store_info |-> qq.var_store_info, var_store_id |-> StoreId,
     formset |-> formset, options |-> options]

Questions ==
    {WithStore(qq, PresentFormSet, <<>>) : qq \in NumericQuestions \cup CheckBoxQuestions}

\* a OneOfOption: the label its string id resolves to and its TypeValue
Option(label, type, val) == [value |-> label, raw_type |-> type, raw_val |-> val]

\* option lists of the OneOf questions: plain u8 options; an option wider
\* than the question's range and none with value 0; a label with a trailing
\* blank; options whose TypeValue is Boolean
OptionLists ==
    { << Option(<<"O", "f", "f">>, "NumSize8", 0), Option(<<"O", "n">>, "NumSize8", 1) >>,
      << Option(<<"O", "f", "f">>, "NumSize8", 2), Option(<<"O", "n">>, "NumSize16", 1) >>,
      << Option(<<"O", "f", "f", " ">>, "NumSize8", 0), Option(<<"O", "n">>, "NumSize8", 1) >>,
      << Option(<<"O", "f", "f">>, "Boolean", 0), Option(<<"O", "n">>, "Boolean", 1) >> }

\* offsets of the question-level specification: a field inside the bytes
\* read_bytes returns, and one in the last 4 payload bytes
QInfos == {2, VarStoreSize - 4}

OneOfQuestions ==
    {WithStore([opcode |-> "OneOf", width |-> w, max_value |-> 1, var_store_info |-> i],
               fs, opts) :
        w \in {1, 2}, i \in QInfos, fs \in {PresentFormSet} \cup MissingFormSets,
        opts \in OptionLists}

\* Numeric and CheckBox questions of the question-level specification
PlainQuestions ==
    {WithStore(qq, fs, <<>>) :
        qq \in {x \in NumericQuestions \cup CheckBoxQuestions :
                   x.width \in {1, 2} /\ x.var_store_info \in QInfos /\ x.max_value <= 255},
        fs \in {PresentFormSet} \cup MissingFormSets}

QQuestions == OneOfQuestions \cup PlainQuestions

\* texts HiiBackend.set is called with in the question-level specification
QTexts == { <<"o", "N">>, <<"O", "f", "f">>, <<"1">>, <<"3", "0", "0">>, <<"m", "a", "x">> }

\* varstore files of the question-level specification: the payload bytes all
\* 0, all 1 or all 2, and a file shorter than the declared size
QFiles ==
    { <<7, 0, 0, 0>> \o [i \in 1..VarStoreSize |-> b] : b \in {0, 1, 2} }
    \cup { <<7, 0, 0, 0, 1>> }

NewValues ==
    { <<"0">>, <<"1">>, <<"6", "4">>, <<"2", "5", "5">>, <<"2", "5", "8">>,
      <<"3", "0", "0">>, <<"+", "1">>, <<"0", "1">>, <<>>, <<"x">> }

\* the variable file: 4 attribute bytes, then VarStoreSize payload bytes
InitialFile == <<7, 0, 0, 0>> \o [i \in 1..VarStoreSize |-> 160 + i]

MountFlagSets == SUBSET {"MS_RDONLY", "MS_NOSUID"}

AttrSets == SUBSET {FS_IMMUTABLE_FL, FS_NODUMP_FL}

NoArg == [offset |-> 0, type |-> "Undefined", val |-> 0]

NoSnap == [taken |-> FALSE, ro |-> FALSE, imm |-> FALSE]

Snap == [taken |-> TRUE, ro |-> "MS_RDONLY" \in mount_flags, imm |-> FS_IMMUTABLE_FL \in attrs]

NoAnswer == [done |-> FALSE, io |-> FALSE, text |-> <<>>]

NoDesc == [value |-> <<>>, possible_options |-> <<>>, varstore |-> FALSE]

NoAttrOp == [kind |-> "none", flags |-> <<>>, before |-> {}, by |-> "none"]

(***************************************************************************)
(* Scope exit of write_at_offset: Rust drops the live locals in reverse    *)
(* order of declaration (lock, _efifs, _immutability_attribute_guard).     *)
(***************************************************************************)
DropOrder_AsDeclared == <<"drop_lock", "drop_mount", "drop_immut">>

DropOrder == <<"drop_immut", "drop_mount", "drop_lock">>

\* the lock object exists from the first statement on; the two guards only
\* once their constructor returned Ok
GuardLive(name, live_immut, live_mount) ==
    \/ name = "drop_lock"
    \/ name = "drop_immut" /\ live_immut
    \/ name = "drop_mount" /\ live_mount

PosOf(name) == CHOOSE i \in 1..3 : DropOrder[i] = name

\* the drop that runs after the i-th of DropOrder, "returned" when none is left
DropAfter(i, live_immut, live_mount) ==
    LET c == {j \in (i + 1)..3 : GuardLive(DropOrder[j], live_immut, live_mount)}
    IN  IF c = {} THEN "returned" ELSE DropOrder[CHOOSE j \in c : \A k \in c : j <= k]

SnapOf(flags, at) ==
    [taken |-> TRUE, ro |-> "MS_RDONLY" \in flags, imm |-> FS_IMMUTABLE_FL \in at]

\* the body of write_at_offset is left with result res (a `?` or the final Ok(()))
Leave(p, res, live_immut, live_mount) ==
    /\ wres' = [wres EXCEPT ![p] = res]
    /\ exit_res' = [exit_res EXCEPT ![p] = res]
    /\ pc' = [pc EXCEPT ![p] = DropAfter(0, live_immut, live_mount)]

\* a drop has run; after the last one write_at_offset returns to change_value,
\* whose `?` turns an error into ChangeValueError::Other and Ok(()) into Ok(true)
AfterDrop(p, me, live_immut, live_mount, flags, at) ==
    LET next == DropAfter(PosOf(me), live_immut, live_mount)
    IN  /\ pc' = [pc EXCEPT ![p] = next]
        /\ IF next = "returned"
           THEN /\ post' = [post EXCEPT ![p] = SnapOf(flags, at)]
                /\ result' = [result EXCEPT ![p] =
                                IF wres[p] = "Ok" THEN "Ok_true" ELSE "Err_Other"]
           ELSE UNCHANGED <<post, result>>

Logged(p, kind, guard) == log' = [log EXCEPT ![p] = Append(@, <<kind, guard>>)]

(***************************************************************************)
(* change_value, up to the call of write_at_offset.                        *)
(***************************************************************************)
\* where a rejecting `return Err(..)` of change_value leads
AfterRejection_FallThrough == "lock"

AfterRejection == "returned"

\* the options whose label equals the text ignoring ASCII case
MatchingOptions(options, s) ==
    {i \in 1..Len(options) : eq_ignore_ascii_case(options[i].value, s)}

ChangeValue(p) ==
    /\ pc[p] = "idle"
    /\ \E s \in texts :
         LET parsed == ParseUnsigned(s, q.width)
             matching == MatchingOptions(desc[p].possible_options, s)
             first == CHOOSE i \in matching : \A k \in matching : i <= k
         IN  /\ new_value' = [new_value EXCEPT ![p] = s]
             /\ IF ~desc[p].varstore
                THEN /\ result' = [result EXCEPT ![p] = "Ok_false"]
                     /\ pc' = [pc EXCEPT ![p] = "returned"]
                     /\ UNCHANGED arg
                ELSE IF q.opcode = "OneOf"
                THEN IF matching = {}
                     THEN /\ result' = [result EXCEPT ![p] = "Err_InvalidOption"]
                          /\ pc' = [pc EXCEPT ![p] = AfterRejection]
                          /\ UNCHANGED arg
                     ELSE /\ arg' = [arg EXCEPT ![p] =
                                       [offset |-> q.var_store_info,
                                        type |-> desc[p].possible_options[first].raw_type,
                                        val |-> desc[p].possible_options[first].raw_val]]
                          /\ pc' = [pc EXCEPT ![p] = "lock"]
                          /\ UNCHANGED result
                ELSE IF ~parsed.ok
                THEN /\ result' = [result EXCEPT ![p] = "Err_Other"]
                     /\ pc' = [pc EXCEPT ![p] = "returned"]
                     /\ UNCHANGED arg
                ELSE IF parsed.val > q.max_value
                THEN /\ result' = [result EXCEPT ![p] = "Err_ExceededMaxValue"]
                     /\ pc' = [pc EXCEPT ![p] = AfterRejection]
                     /\ UNCHANGED arg
                ELSE /\ arg' = [arg EXCEPT ![p] = [offset |-> q.var_store_info,
                                                   type |-> NumType(q.width),
                                                   val |-> parsed.val]]
                     /\ pc' = [pc EXCEPT ![p] = "lock"]
                     /\ UNCHANGED result
    /\ UNCHANGED <<q, texts, wres, fd, lock_holder, mount_flags, attrs, file,
                   file_contents, cursor, efifs, immutability_attribute_guard,
                   pre, post, log, release_failed, exit_res, answer>>
    /\ UNCHANGED <<desc, attr_op, attr_writes>>
    /\ UNCHANGED <<restVars, libVars>>

(***************************************************************************)
(* write_at_offset, one action per system call sequence.                   *)
(***************************************************************************)
Contended_Never(p) == FALSE

\* flock(fd, LockExclusiveNonblock) fails when another open file description
\* holds the lock
Contended(p) == lock_holder # 0

\* FileLock::lock: open (or create) the lock file, then flock(LOCK_EX | LOCK_NB)
\* on the new descriptor; the lock is contended when any other descriptor holds it
FileLock_lock(p) ==
    /\ pc[p] = "lock"
    /\ \E opened \in BOOLEAN :
         IF ~opened
         THEN /\ Leave(p, "Err", FALSE, FALSE)
              /\ UNCHANGED <<fd, lock_holder, pre, log>>
         ELSE /\ fd' = [fd EXCEPT ![p] = 2 + p]
              /\ IF Contended(p)
                 THEN /\ Leave(p, "Err", FALSE, FALSE)
                      /\ UNCHANGED <<lock_holder, pre, log>>
                 ELSE /\ lock_holder' = p
                      /\ pre' = [pre EXCEPT ![p] = Snap]
                      /\ Logged(p, "acquire", "FileLock")
                      /\ pc' = [pc EXCEPT ![p] = "read"]
                      /\ UNCHANGED <<wres, exit_res>>
    /\ UNCHANGED <<q, texts, new_value, arg, result, mount_flags, attrs, file,
                   file_contents, cursor, efifs, immutability_attribute_guard,
                   post, release_failed, answer>>
    /\ UNCHANGED <<desc, attr_op, attr_writes>>
    /\ UNCHANGED <<restVars, libVars>>

\* File::open + read_to_end, then the seek to 4 + offset and the write of the
\* value into the cursor (other TypeValue variants write nothing)
ReadAndMutate(p) ==
    /\ pc[p] = "read"
    /\ \E ok \in BOOLEAN :
         IF ~ok
         THEN /\ Leave(p, "Err", FALSE, FALSE)
              /\ UNCHANGED <<file_contents, cursor>>
         ELSE /\ file_contents' = [file_contents EXCEPT ![p] = file]
              /\ cursor' = [cursor EXCEPT ![p] =
                    IF WidthOf(arg[p].type) > 0
                    THEN CursorWrite(file, 4 + arg[p].offset,
                                     ToLeBytes(arg[p].val, WidthOf(arg[p].type)))
                    ELSE file]
              /\ pc' = [pc EXCEPT ![p] = "mount_guard"]
              /\ UNCHANGED <<wres, exit_res>>
    /\ UNCHANGED <<q, texts, new_value, arg, result, fd, lock_holder, mount_flags,
                   attrs, file, efifs, immutability_attribute_guard,
                   pre, post, log, release_failed, answer>>
    /\ UNCHANGED <<desc, attr_op, attr_writes>>
    /\ UNCHANGED <<restVars, libVars>>

RemountFlags_KeepRdonly(original_flags) == original_flags

\* the flags of the mount after mount(original_flags & !MS_RDONLY | MS_REMOUNT);
\* a mount that is not read-only is left as it is
RemountFlags(original_flags) == original_flags \ {"MS_RDONLY"}

\* EfivarsMountGuard::new: read the flags from /proc/mounts; when MS_RDONLY is
\* set, remount with original_flags & !MS_RDONLY | MS_REMOUNT
EfivarsMountGuard_new(p) ==
    /\ pc[p] = "mount_guard"
    /\ \E outcome \in {"no_flags", "mount_failed", "ok"} :
         IF outcome = "no_flags" \/ (outcome = "mount_failed" /\ "MS_RDONLY" \in mount_flags)
         THEN /\ Leave(p, "Err", FALSE, FALSE)
              /\ UNCHANGED <<mount_flags, efifs, log>>
         ELSE /\ outcome = "ok"
              /\ mount_flags' = RemountFlags(mount_flags)
              /\ efifs' = [efifs EXCEPT ![p] = [live |-> TRUE, original_flags |-> mount_flags]]
              /\ Logged(p, "acquire", "EfivarsMountGuard")
              /\ pc' = [pc EXCEPT ![p] = "immut_guard"]
              /\ UNCHANGED <<wres, exit_res>>
    /\ UNCHANGED <<q, texts, new_value, arg, result, fd, lock_holder, attrs, file,
                   file_contents, cursor, immutability_attribute_guard,
                   pre, post, release_failed, answer>>
    /\ UNCHANGED <<desc, attr_op, attr_writes>>
    /\ UNCHANGED <<restVars, libVars>>

\* EfivarsImmutabilityGuard::new: get_all_attrs; when FS_IMMUTABLE_FL is set,
\* clear_attrs!(path, FS_IMMUTABLE_FL) = get_all_attrs, mask, set_all_attrs
EfivarsImmutabilityGuard_new(p) ==
    /\ pc[p] = "immut_guard"
    /\ \E outcome \in {"no_attrs", "clear_failed", "ok"} :
         IF outcome = "no_attrs" \/ (outcome = "clear_failed" /\ FS_IMMUTABLE_FL \in attrs)
         THEN /\ Leave(p, "Err", FALSE, efifs[p].live)
              /\ UNCHANGED <<attrs, immutability_attribute_guard, log, attr_op, attr_writes>>
         ELSE /\ outcome = "ok"
              /\ IF FS_IMMUTABLE_FL \in attrs
                 THEN /\ attrs' = BitsOf(clear_attrs(IntOf(attrs), <<FS_IMMUTABLE_FL>>))
                      /\ attr_op' = [kind |-> "clear", flags |-> <<FS_IMMUTABLE_FL>>,
                                     before |-> attrs, by |-> "guard"]
                      /\ attr_writes' = attr_writes + 1
                 ELSE UNCHANGED <<attrs, attr_op, attr_writes>>
              /\ immutability_attribute_guard' =
                    [immutability_attribute_guard EXCEPT ![p] =
                        [live |-> TRUE, attrs_before_writing |-> attrs]]
              /\ Logged(p, "acquire", "EfivarsImmutabilityGuard")
              /\ pc' = [pc EXCEPT ![p] = "create"]
              /\ UNCHANGED <<wres, exit_res>>
    /\ UNCHANGED <<q, texts, new_value, arg, result, fd, lock_holder, mount_flags, file,
                   file_contents, cursor, efifs, pre, post, release_failed, answer>>
    /\ UNCHANGED desc
    /\ UNCHANGED <<restVars, libVars>>

\* File::create: open for writing, truncating the file
FileCreate(p) ==
    /\ pc[p] = "create"
    /\ \E ok \in BOOLEAN :
         IF ~ok
         THEN /\ Leave(p, "Err", immutability_attribute_guard[p].live, efifs[p].live)
              /\ UNCHANGED file
         ELSE /\ file' = <<>>
              /\ pc' = [pc EXCEPT ![p] = "write"]
              /\ UNCHANGED <<wres, exit_res>>
    /\ UNCHANGED <<q, texts, new_value, arg, result, fd, lock_holder, mount_flags, attrs,
                   file_contents, cursor, efifs, immutability_attribute_guard,
                   pre, post, log, release_failed, answer>>
    /\ UNCHANGED <<desc, attr_op, attr_writes>>
    /\ UNCHANGED <<restVars, libVars>>

\* write_all(cursor.get_ref()), then Ok(())
FileWrite(p) ==
    /\ pc[p] = "write"
    /\ \E ok \in BOOLEAN :
         IF ~ok
         THEN /\ Leave(p, "Err", immutability_attribute_guard[p].live, efifs[p].live)
              /\ UNCHANGED file
         ELSE /\ file' = cursor[p]
              /\ Leave(p, "Ok", immutability_attribute_guard[p].live, efifs[p].live)
    /\ UNCHANGED <<q, texts, new_value, arg, result, fd, lock_holder, mount_flags, attrs,
                   file_contents, cursor, efifs, immutability_attribute_guard,
                   pre, post, log, release_failed, answer>>
    /\ UNCHANGED <<desc, attr_op, attr_writes>>
    /\ UNCHANGED <<restVars, libVars>>

(***************************************************************************)
(* The drops at scope exit.                                                *)
(***************************************************************************)
\* Drop for EfivarsImmutabilityGuard: when the bit was set before, set_attrs!
\* (get_all_attrs, or the bit in, set_all_attrs); a failure is only logged
Drop_EfivarsImmutabilityGuard(p) ==
    /\ pc[p] = "drop_immut"
    /\ \E ok \in BOOLEAN :
         LET restore == FS_IMMUTABLE_FL \in immutability_attribute_guard[p].attrs_before_writing
             at == IF restore /\ ok
                   THEN BitsOf(set_attrs(IntOf(attrs), <<FS_IMMUTABLE_FL>>))
                   ELSE attrs
         IN  /\ attrs' = at
             /\ IF restore /\ ok
                THEN /\ attr_op' = [kind |-> "set", flags |-> <<FS_IMMUTABLE_FL>>,
                                    before |-> attrs, by |-> "guard"]
                     /\ attr_writes' = attr_writes + 1
                ELSE UNCHANGED <<attr_op, attr_writes>>
             /\ release_failed' = [release_failed EXCEPT ![p] =
                    IF restore /\ ~ok THEN @ \cup {"EfivarsImmutabilityGuard"} ELSE @]
             /\ AfterDrop(p, "drop_immut", FALSE, efifs[p].live, mount_flags, at)
    /\ immutability_attribute_guard' =
          [immutability_attribute_guard EXCEPT ![p].live = FALSE]
    /\ Logged(p, "release", "EfivarsImmutabilityGuard")
    /\ UNCHANGED <<q, texts, new_value, arg, wres, fd, lock_holder, mount_flags, file,
                   file_contents, cursor, efifs, pre, exit_res, answer>>
    /\ UNCHANGED desc
    /\ UNCHANGED <<restVars, libVars>>

MountRestoreNeeded_Inverted(original_flags) == "MS_RDONLY" \notin original_flags

\* the condition of Drop for EfivarsMountGuard
MountRestoreNeeded(original_flags) == "MS_RDONLY" \in original_flags

\* Drop for EfivarsMountGuard: when MS_RDONLY was set before, remount with
\* original_flags | MS_REMOUNT; a failure is only logged
Drop_EfivarsMountGuard(p) ==
    /\ pc[p] = "drop_mount"
    /\ \E ok \in BOOLEAN :
         LET restore == MountRestoreNeeded(efifs[p].original_flags)
             flags == IF restore /\ ok THEN efifs[p].original_flags ELSE mount_flags
         IN  /\ mount_flags' = flags
             /\ release_failed' = [release_failed EXCEPT ![p] =
                    IF restore /\ ~ok THEN @ \cup {"EfivarsMountGuard"} ELSE @]
             /\ AfterDrop(p, "drop_mount", immutability_attribute_guard[p].live, FALSE,
                          flags, attrs)
    /\ efifs' = [efifs EXCEPT ![p].live = FALSE]
    /\ Logged(p, "release", "EfivarsMountGuard")
    /\ UNCHANGED <<q, texts, new_value, arg, wres, fd, lock_holder, attrs, file,
                   file_contents, cursor, immutability_attribute_guard, pre,
                   exit_res, answer>>
    /\ UNCHANGED <<desc, attr_op, attr_writes>>
    /\ UNCHANGED <<restVars, libVars>>

\* Drop for FileLock: when a descriptor was opened, flock(LOCK_UN) on it, which
\* releases the lock only if this descriptor holds it; a failure is only logged
Drop_FileLock(p) ==
    /\ pc[p] = "drop_lock"
    /\ \E ok \in BOOLEAN :
         /\ lock_holder' = IF fd[p] # -1 /\ ok /\ lock_holder = p THEN 0 ELSE lock_holder
         /\ release_failed' = [release_failed EXCEPT ![p] =
                IF fd[p] # -1 /\ ~ok THEN @ \cup {"FileLock"} ELSE @]
    /\ log' = [log EXCEPT ![p] =
                 IF lock_holder = p THEN Append(@, <<"release", "FileLock">>)
                 ELSE IF fd[p] # -1 THEN Append(@, <<"unlock_unheld", "FileLock">>)
                 ELSE @]
    /\ AfterDrop(p, "drop_lock", immutability_attribute_guard[p].live, efifs[p].live,
                 mount_flags, attrs)
    /\ UNCHANGED <<q, texts, new_value, arg, wres, fd, mount_flags, attrs, file,
                   file_contents, cursor, efifs, immutability_attribute_guard, pre,
                   exit_res, answer>>
    /\ UNCHANGED <<desc, attr_op, attr_writes>>
    /\ UNCHANGED <<restVars, libVars>>

(***************************************************************************)
(* set_attrs! and clear_attrs! on the varstore file, outside a write.      *)
(***************************************************************************)
\* the flag lists the macros are invoked with
FlagLists ==
    { <<FS_IMMUTABLE_FL>>, <<FS_NODUMP_FL>>, <<FS_IMMUTABLE_FL, FS_NODUMP_FL>>, <<1>> }

\* both macros: get_all_attrs, combine, set_all_attrs; an error of either
\* ioctl leaves the flags as they are
AttrMacro(p, kind) ==
    /\ attr_writes < MaxAttrOps
    /\ \E flags \in FlagLists, ok \in BOOLEAN :
         IF ok
         THEN /\ attrs' = BitsOf(IF kind = "set" THEN set_attrs(IntOf(attrs), flags)
                                 ELSE clear_attrs(IntOf(attrs), flags))
              /\ attr_op' = [kind |-> kind, flags |-> flags, before |-> attrs, by |-> "caller"]
              /\ attr_writes' = attr_writes + 1
         ELSE UNCHANGED <<attrs, attr_op, attr_writes>>
    /\ UNCHANGED <<q, texts, pc, new_value, arg, wres, result, fd, lock_holder, mount_flags,
                   file, file_contents, cursor, efifs, immutability_attribute_guard,
                   pre, post, log, release_failed, exit_res, answer, desc>>
    /\ UNCHANGED <<restVars, libVars>>

\* set_attrs!(path, flags..) by a caller that is not writing
SetAttrs(p) ==
    /\ pc[p] = "idle"
    /\ AttrMacro(p, "set")

\* clear_attrs!(path, flags..) by a caller that is not writing
ClearAttrs(p) ==
    /\ pc[p] = "idle"
    /\ AttrMacro(p, "clear")

(***************************************************************************)
(* The read path: read_bytes and the decoding of the current value.        *)
(***************************************************************************)
\* VariableStore::read_bytes: open the file and read_exact size() bytes
read_bytes(opened) ==
    IF ~opened \/ Len(file) < VarStoreSize
    THEN [ok |-> FALSE, bytes |-> <<>>]
    ELSE [ok |-> TRUE, bytes |-> SubSeq(file, 1, VarStoreSize)]

\* handle_numeric / handle_checkbox: the answer text of the descriptor
CurrentValue(bytes_result) ==
    IF ~bytes_result.ok THEN Unknown
    ELSE LET e == extract_efi_data(q.var_store_info, bytes_result.bytes, q.width)
         IN  IF e.ok THEN ToDecimal(e.val) ELSE Unknown

find_corresponding_varstore_AnyId(formset, var_store_id) ==
    \E i \in 1..Len(formset) : formset[i].kind \in {"VarStore", "VarStoreEfi"}

\* find_corresponding_varstore: the first VarStore / VarStoreEfi child of the
\* enclosing FormSet with the question's var_store_id
find_corresponding_varstore(formset, var_store_id) ==
    \E i \in 1..Len(formset) :
        /\ formset[i].kind \in {"VarStore", "VarStoreEfi"}
        /\ formset[i].var_store_id = var_store_id

\* the u64 handle_oneof compares with chosen_value
OptionValue(o) ==
    IF o.raw_type \in {"NumSize8", "NumSize16", "NumSize32", "NumSize64"} THEN o.raw_val ELSE 0

\* handle_oneof: chosen_value starts at 0 and is set only when the read and
\* the decoding succeed; the answer is the trimmed label of the first option
\* with that value
handle_oneof(varstore, bytes_result) ==
    IF ~varstore \/ ~bytes_result.ok
    THEN [value |-> Unknown, possible_options |-> <<>>, varstore |-> varstore]
    ELSE LET e == extract_efi_data(q.var_store_info, bytes_result.bytes, q.width)
             chosen_value == IF e.ok THEN e.val ELSE 0
             found == {i \in 1..Len(q.options) : OptionValue(q.options[i]) = chosen_value}
             first == CHOOSE i \in found : \A k \in found : i <= k
         IN  [value |-> IF found = {} THEN Unknown ELSE trim(q.options[first].value),
              possible_options |-> q.options,
              varstore |-> TRUE]

\* handle_numeric / handle_checkbox
handle_numeric(varstore, bytes_result) ==
    [value |-> IF varstore THEN CurrentValue(bytes_result) ELSE Unknown,
     possible_options |-> <<>>,
     varstore |-> varstore]

\* handle_question: the QuestionDescriptor of q; read_bytes runs only when
\* the varstore was found
handle_question(opened) ==
    LET varstore == find_corresponding_varstore(q.formset, q.var_store_id)
        bytes_result == read_bytes(varstore /\ opened)
    IN  IF q.opcode = "OneOf" THEN handle_oneof(varstore, bytes_result)
        ELSE handle_numeric(varstore, bytes_result)

\* find_question in HiiBackend.set: the descriptor is built from the file as
\* it is now; the caller may then pass any text, among them the value read
Describe(p) ==
    /\ pc[p] = "new"
    /\ \E opened \in BOOLEAN :
         /\ desc' = [desc EXCEPT ![p] = handle_question(opened)]
         /\ texts' = QTexts \cup {handle_question(opened).value}
    /\ pc' = [pc EXCEPT ![p] = "idle"]
    /\ UNCHANGED <<q, new_value, arg, wres, result, fd, lock_holder, mount_flags,
                   attrs, file, file_contents, cursor, efifs,
                   immutability_attribute_guard, pre, post, log, release_failed,
                   exit_res, answer, attr_op, attr_writes>>
    /\ UNCHANGED <<restVars, libVars>>

\* a fresh read of the question after change_value has returned
ReadQuestion(p) ==
    /\ pc[p] = "returned"
    /\ \E opened \in BOOLEAN :
         answer' = [answer EXCEPT ![p] =
                      [done |-> TRUE, io |-> opened, text |-> handle_question(opened).value]]
    /\ pc' = [pc EXCEPT ![p] = "read_back"]
    /\ UNCHANGED <<q, texts, new_value, arg, wres, result, fd, lock_holder, mount_flags,
                   attrs, file, file_contents, cursor, efifs,
                   immutability_attribute_guard, pre, post, log, release_failed, exit_res>>
    /\ UNCHANGED <<desc, attr_op, attr_writes>>
    /\ UNCHANGED <<restVars, libVars>>

(***************************************************************************)
(* Initial states and specifications of the HII write path.                *)
(***************************************************************************)
\* the questions and texts of the interleaving specification
ConcQuestions ==
    {qq \in Questions : qq.opcode = "Numeric" /\ qq.width = 2 /\ qq.max_value = 100
                        /\ qq.var_store_info = 2}

ConcValues == { <<"6", "4">> }

InitEnv(flag_sets, attr_sets, files) ==
    /\ new_value = [p \in Procs |-> <<>>]
    /\ arg = [p \in Procs |-> NoArg]
    /\ wres = [p \in Procs |-> "none"]
    /\ result = [p \in Procs |-> "none"]
    /\ fd = [p \in Procs |-> -1]
    /\ lock_holder = 0
    /\ mount_flags \in flag_sets
    /\ attrs \in attr_sets
    /\ file \in files
    /\ file_contents = [p \in Procs |-> <<>>]
    /\ cursor = [p \in Procs |-> <<>>]
    /\ efifs = [p \in Procs |-> [live |-> FALSE, original_flags |-> {}]]
    /\ immutability_attribute_guard =
          [p \in Procs |-> [live |-> FALSE, attrs_before_writing |-> {}]]
    /\ pre = [p \in Procs |-> NoSnap]
    /\ post = [p \in Procs |-> NoSnap]
    /\ log = [p \in Procs |-> <<>>]
    /\ release_failed = [p \in Procs |-> {}]
    /\ exit_res = [p \in Procs |-> "none"]
    /\ answer = [p \in Procs |-> NoAnswer]
    /\ attr_op = NoAttrOp
    /\ attr_writes = 0

\* the descriptor of a question whose varstore was found and read
Described == desc = [p \in Procs |-> handle_question(TRUE)]

\* one caller, every question and text of the model
HiiStart ==
    /\ q \in Questions
    /\ texts = NewValues
    /\ pc = [p \in Procs |-> IF p = 1 THEN "idle" ELSE "off"]
    /\ InitEnv(MountFlagSets, AttrSets, {InitialFile})
    /\ Described

\* every caller active
ConcStart ==
    /\ q \in ConcQuestions
    /\ texts = ConcValues
    /\ pc = [p \in Procs |-> "idle"]
    /\ InitEnv({{}, {"MS_RDONLY", "MS_NOSUID"}},
               {{FS_NODUMP_FL}, {FS_IMMUTABLE_FL, FS_NODUMP_FL}}, {InitialFile})
    /\ Described

\* HiiBackend.set on one question: find_question, change_value, then a read
QStart ==
    /\ q \in QQuestions
    /\ texts = {}
    /\ pc = [p \in Procs |-> IF p = 1 THEN "new" ELSE "off"]
    /\ InitEnv({{"MS_RDONLY"}}, {{FS_IMMUTABLE_FL}}, QFiles)
    /\ desc = [p \in Procs |-> NoDesc]

\* a call of write_at_offset through change_value
WriteStep(p) ==
    \/ ChangeValue(p)
    \/ FileLock_lock(p)
    \/ ReadAndMutate(p)
    \/ EfivarsMountGuard_new(p)
    \/ EfivarsImmutabilityGuard_new(p)
    \/ FileCreate(p)
    \/ FileWrite(p)
    \/ Drop_EfivarsImmutabilityGuard(p)
    \/ Drop_EfivarsMountGuard(p)
    \/ Drop_FileLock(p)

HiiNext == \E p \in Procs : WriteStep(p) \/ ReadQuestion(p)

ConcNext == \E p \in Procs : WriteStep(p)

QNext == \E p \in Procs : Describe(p) \/ WriteStep(p) \/ ReadQuestion(p)

(***************************************************************************)
(* Properties of the write-guard stack.                                    *)
(***************************************************************************)
Range(seq) == {seq[i] : i \in 1..Len(seq)}

Reverse(seq) == [i \in 1..Len(seq) |-> seq[Len(seq) + 1 - i]]

IsAcquire(e) == e[1] = "acquire"

IsRelease(e) == e[1] = "release"

Guards(events) == [i \in 1..Len(events) |-> events[i][2]]

Acquired(p) == Guards(SelectSeq(log[p], IsAcquire))

Released(p) == Guards(SelectSeq(log[p], IsRelease))

GuardOrder == <<"FileLock", "EfivarsMountGuard", "EfivarsImmutabilityGuard">>

HoldsLock(p) == <<"acquire", "FileLock">> \in Range(log[p])

\* the caller is between the acquisition of the lock and its release
InSection(p) ==
    \/ pc[p] \in {"read", "mount_guard", "immut_guard", "create", "write"}
    \/ pc[p] \in {"drop_immut", "drop_mount", "drop_lock"} /\ HoldsLock(p)
                                                        /\ "FileLock" \notin Range(Released(p))

\* the caller found the lock held by another descriptor
Refused(p) == fd[p] # -1 /\ ~HoldsLock(p) /\ pc[p] \in {"drop_lock", "returned"}

\* C1: guard restoration.  A call that got past the lock acquisition and whose
\* restoring remount and attribute ioctl did not fail returns with efivarfs
\* read-only iff it was read-only when the call took the lock, and with
\* FS_IMMUTABLE_FL set iff it was set then - on the Ok path and on every
\* error path.
C1_GuardRestoration ==
    \A p \in Procs :
        (pre[p].taken /\ post[p].taken
            /\ release_failed[p] \cap {"EfivarsMountGuard", "EfivarsImmutabilityGuard"} = {})
        => (post[p].ro = pre[p].ro /\ post[p].imm = pre[p].imm)

\* a call that lifted both protections, failed after both guards were created
\* and has returned with both restored
C1_Witness ==
    \E p \in Procs :
        /\ post[p].taken /\ pre[p].ro /\ pre[p].imm
        /\ exit_res[p] = "Err"
        /\ Len(Acquired(p)) = 3
        /\ release_failed[p] = {}

\* C2: a step that truncates or writes the variable file is taken by the
\* holder of the lock, on a read-write mount and with the immutable bit clear;
\* the step that clears the immutable bit runs on a read-write mount, and the
\* step that remounts read-write is taken by the holder of the lock.
C2_WriteUnderGuards ==
    [][ /\ (file' # file =>
              \E p \in Procs : /\ pc[p] \in {"create", "write"}
                               /\ lock_holder = p
                               /\ "MS_RDONLY" \notin mount_flags
                               /\ FS_IMMUTABLE_FL \notin attrs)
        /\ ((FS_IMMUTABLE_FL \in attrs /\ FS_IMMUTABLE_FL \notin attrs')
              => "MS_RDONLY" \notin mount_flags)
        /\ (("MS_RDONLY" \in mount_flags /\ "MS_RDONLY" \notin mount_flags')
              => \E p \in Procs : pc[p] = "mount_guard" /\ lock_holder = p)
      ]_vars

\* a caller about to write the truncated file after lifting both protections
C2_Witness ==
    \E p \in Procs : pc[p] = "write" /\ file = <<>> /\ pre[p].ro /\ pre[p].imm

\* C3: at most one caller at a time is between lock acquisition and unlock,
\* and it holds the lock throughout (no other caller's cleanup releases it); a
\* caller that found the lock held has failed without reading the variable,
\* without creating a guard and without touching the mount, the attributes or
\* the file.
C3_MutualExclusion ==
    /\ Cardinality({p \in Procs : InSection(p)}) <= 1
    /\ \A p \in Procs : InSection(p) => lock_holder = p
    /\ \A p \in Procs :
          Refused(p) => /\ wres[p] = "Err"
                        /\ file_contents[p] = <<>>
                        /\ cursor[p] = <<>>
                        /\ Acquired(p) = <<>>
                        /\ ~efifs[p].live
                        /\ ~immutability_attribute_guard[p].live

\* a refused caller has run its cleanup and returned while the holder of the
\* lock is about to write
C3_Witness ==
    \E p, r \in Procs :
        /\ p # r
        /\ pc[p] = "write" /\ lock_holder = p
        /\ Refused(r) /\ pc[r] = "returned"

\* C4: the guards are acquired in the order FileLock, EfivarsMountGuard,
\* EfivarsImmutabilityGuard; releases happen after all acquisitions, in the
\* reverse order; when the call has returned exactly the acquired guards were
\* released; and what change_value returns is decided by the result the body
\* was left with, whether or not a release step failed.  (The flock(LOCK_UN)
\* that the drop of a refused FileLock issues on its own descriptor is not a
\* release: that descriptor holds nothing.)
C4_ReverseRelease ==
    \A p \in Procs :
        /\ Acquired(p) = SubSeq(GuardOrder, 1, Len(Acquired(p)))
        /\ Released(p) = SubSeq(Reverse(Acquired(p)), 1, Len(Released(p)))
        /\ \A i, j \in 1..Len(log[p]) :
              (IsAcquire(log[p][i]) /\ IsRelease(log[p][j])) => i < j
        /\ (pc[p] \in {"returned", "read_back"} /\ exit_res[p] # "none")
              => /\ Released(p) = Reverse(Acquired(p))
                 /\ (result[p] = "Ok_true") = (exit_res[p] = "Ok")
                 /\ (result[p] = "Err_Other") = (exit_res[p] = "Err")

\* a call that acquired all three guards, wrote, had a release step fail and
\* still returned Ok
C4_Witness ==
    \E p \in Procs :
        /\ pc[p] = "returned"
        /\ Len(Acquired(p)) = 3
        /\ release_failed[p] # {}
        /\ result[p] = "Ok_true"

(***************************************************************************)
(* Properties of the value written and read back.                          *)
(***************************************************************************)
\* the bytes write_at_offset is specified to leave in the file: the content
\* read under the lock with the w bytes at [4 + offset, 4 + offset + w)
\* replaced by the little-endian value, nothing else changed
FrameOf(p) ==
    LET w == WidthOf(arg[p].type)
        le == ToLeBytes(arg[p].val, w)
        start == 4 + arg[p].offset
    IN  [i \in 1..Len(file_contents[p]) |->
            IF start < i /\ i <= start + w THEN le[i - start] ELSE file_contents[p][i]]

\* the w-byte field of the question lies inside the VarStoreSize payload bytes
FieldInPayload == q.var_store_info + q.width <= VarStoreSize

\* C5: round trip.  After a successful change_value(q, v) on a question whose
\* field lies inside the payload of the 4 + S byte file, a fresh read that
\* could open the file reports the decimal text of v.
C5_RoundTrip ==
    \A p \in Procs :
        (answer[p].done /\ answer[p].io /\ result[p] = "Ok_true" /\ FieldInPayload)
        => answer[p].text = ToDecimal(arg[p].val)

\* C6: frame of a write.  After a successful write_at_offset the file is the
\* content read under the lock with only the w value bytes replaced, and has
\* the length it had.
C6_WriteFrame ==
    \A p \in Procs :
        (exit_res[p] = "Ok")
        => (file = FrameOf(p) /\ Len(file) = Len(file_contents[p]))

\* C27: when change_value returns Ok(true) the bytes of the file at offset
\* 4 + var_store_info encode the chosen value; an option whose TypeValue is
\* not NumSize8/16/32/64 (Boolean, ...) is never reported as a change while
\* write_at_offset left the value bytes as they were.
C27_ChangeIsWritten ==
    \A p \in Procs :
        (pc[p] \in {"returned", "read_back"} /\ result[p] = "Ok_true") =>
           LET w == WidthOf(arg[p].type)
               start == 4 + arg[p].offset
           IN  /\ w > 0
               /\ Len(file) >= start + w
               /\ SubSeq(file, start + 1, start + w) = ToLeBytes(arg[p].val, w)

(***************************************************************************)
(* Properties of change_value and of the question descriptors.             *)
(***************************************************************************)
AllDigits(s) == s # <<>> /\ \A i \in 1..Len(s) : IsDigit(s[i])

\* change_value has been called by p and has taken its decision
Decided(p) == pc[p] \notin {"off", "new", "idle"}

\* C11: on a Numeric or CheckBox question with a varstore, every decimal
\* value above max_value is refused with ExceededMaxValue, also one that does
\* not fit the range width, and a value within the maximum is written at
\* var_store_info with the width of the range.
C11_ExceededMaxValue ==
    \A p \in Procs :
        (Decided(p) /\ desc[p].varstore /\ q.opcode \in {"Numeric", "CheckBox"}
            /\ AllDigits(new_value[p]))
        => IF DigitsVal(new_value[p], 0) > q.max_value
           THEN result[p] = "Err_ExceededMaxValue"
           ELSE arg[p] = [offset |-> q.var_store_info, type |-> NumType(q.width),
                          val |-> DigitsVal(new_value[p], 0)]

Rejected(p) == result[p] \in {"Err_InvalidOption", "Err_ExceededMaxValue"}

\* write_at_offset was never entered by p and nothing it touches has changed
Untouched(p) ==
    /\ log[p] = <<>>
    /\ fd[p] = -1
    /\ pre[p] = NoSnap
    /\ file_contents[p] = <<>>
    /\ exit_res[p] = "none"
    /\ lock_holder = 0
    /\ mount_flags = {"MS_RDONLY"}
    /\ attrs = {FS_IMMUTABLE_FL}
    /\ file \in QFiles

\* C12: a value rejected with InvalidOption or ExceededMaxValue is rejected
\* before write_at_offset: no lock file opened or locked, no remount, no
\* attribute change, no byte of the varstore file changed.
C12_RejectedNoSideEffects == \A p \in Procs : Rejected(p) => Untouched(p)

\* a OneOf question with options whose labels the text does not match
C12_Witness ==
    /\ result[1] = "Err_InvalidOption"
    /\ desc[1].possible_options # <<>>
    /\ answer[1].done

\* the bytes the decoding of the answer had at hand
BytesAvailable(p) ==
    IF find_corresponding_varstore(q.formset, q.var_store_id) /\ answer[p].io
       /\ Len(file) >= VarStoreSize
    THEN VarStoreSize ELSE 0

\* C13: whenever fewer than 4 + var_store_info + width bytes are available,
\* the current value of the question is "Unknown", for OneOf as for Numeric
\* and CheckBox.
C13_UnknownWhenShort ==
    \A p \in Procs :
        (answer[p].done /\ BytesAvailable(p) < 4 + q.var_store_info + q.width)
        => answer[p].text = Unknown

\* HiiBackend.set: one response entry per question change_value reported as
\* modified
SetResponses(p) ==
    IF result[p] = "Ok_true"
    THEN << [modified |-> TRUE, answer |-> new_value[p], options |-> desc[p].possible_options] >>
    ELSE <<>>

\* C14: a question whose var_store_id no VarStore/VarStoreEfi child of the
\* FormSet has reads as "Unknown"; change_value returns Ok(false) without
\* lock, remount or file access, and set reports nothing as modified.
C14_MissingVarstore ==
    \A p \in Procs :
        (q.formset \in MissingFormSets /\ pc[p] \notin {"off", "new"})
        => /\ desc[p].value = Unknown
           /\ ~desc[p].varstore
           /\ pc[p] \in {"idle", "returned", "read_back"}
           /\ Untouched(p)
           /\ Decided(p) => (result[p] = "Ok_false" /\ SetResponses(p) = <<>>)
           /\ answer[p].done => answer[p].text = Unknown

\* a OneOf question in a FormSet whose only VarStore has another id, after
\* change_value and a read
C14_Witness ==
    /\ q.opcode = "OneOf"
    /\ Len(q.formset) = 2
    /\ result[1] = "Ok_false"
    /\ new_value[1] = <<"o", "N">>
    /\ answer[1].done

\* C15: change_value with the value the descriptor reports leaves the file
\* byte-for-byte as it was read, whatever the TypeValue of the option written.
C15_Idempotent ==
    \A p \in Procs :
        (exit_res[p] = "Ok" /\ desc[p].value # Unknown /\ new_value[p] = desc[p].value)
        => file = file_contents[p]

(***************************************************************************)
(* iLO Blobstore2 transport and the REST retry loop.                       *)
(***************************************************************************)
\* the other sizes of the library, relative to the ones above
MaxReadSize == ReadRequestSize + 2

MaxWriteSize == WriteRequestSize + 2

\* the sequence number the library puts into the request templates
RequestSeq == 258

\* what the reply carries at [2..4): the request's number, or one that
\* agrees with it in the low byte only
Seqs == {RequestSeq, RequestSeq % 256}

\* error codes of the model's replies: Success, BadParameter, NotModified
ErrorCodes == {Success, 2, NotModified}

ReceiveModes == {ImmediateResponse, FragmentedResponse, 2}

\* request lengths: one below the immediate limit, one at it, one above
RequestLens == {2, MaxWriteSize + ImmediateRequestSize, MaxWriteSize + ImmediateRequestSize + 1}

Put(buf, off, bytes) ==
    [i \in 1..Len(buf) |-> IF off < i /\ i <= off + Len(bytes) THEN bytes[i - off] ELSE buf[i]]

\* recv_buf as IloRestChif::exchange_packet returns it: max_buffer_size bytes,
\* the reply's sequence number at [2..4), its error code at [8..12), the
\* command-specific fields after them, little-endian
ReplyBuf(seq, err, fields) ==
    LET base == Put(Put(Zeros(MaxBufferSize), 2, ToLeBytes(seq, 2)), 8, ToLeBytes(err, 4))
        with1 == IF Len(fields) >= 1 THEN Put(base, fields[1][1], fields[1][2]) ELSE base
        with2 == IF Len(fields) >= 2 THEN Put(with1, fields[2][1], fields[2][2]) ELSE with1
        with3 == IF Len(fields) >= 3 THEN Put(with2, fields[3][1], fields[3][2]) ELSE with2
    IN  with3

\* read_le::<uN>() with the cursor at byte offset off
ReadLe(buf, off, n) ==
    IF off + n > Len(buf) THEN [ok |-> FALSE, val |-> 0]
    ELSE [ok |-> TRUE, val |-> FromLeBytes(SubSeq(buf, off + 1, off + n))]

ErrorCodeAccepted_Any(error_code) == TRUE

\* the error-code test of Transport::exchange_packet
ErrorCodeAccepted(error_code) == error_code = Success \/ error_code = NotModified

\* Transport::exchange_packet: the chif status, then PacketExchangeResponse
\* (sequence_number at 2, error_code at 8) against the sequence number read
\* from send_buf[2..4)
exchange_packet(send_seq, status, recv_buf) ==
    IF status # CHIF_STATUS_CODE_SUCCESS THEN [ok |-> FALSE, buf |-> <<>>]
    ELSE LET sequence_number == ReadLe(recv_buf, 2, 2)
             error_code == ReadLe(recv_buf, 8, 4)
         IN  IF ~sequence_number.ok \/ ~error_code.ok THEN [ok |-> FALSE, buf |-> <<>>]
             ELSE IF sequence_number.val # send_seq THEN [ok |-> FALSE, buf |-> <<>>]
             ELSE IF ~ErrorCodeAccepted(error_code.val) THEN [ok |-> FALSE, buf |-> <<>>]
             ELSE [ok |-> TRUE, buf |-> recv_buf]

NoExchange ==
    [kind |-> "none", send_seq |-> 0, status |-> 0, recv_seq |-> 0, recv_err |-> 0,
     inspected |-> FALSE]

\* the record of one exchange: what was sent, what the library answered, and
\* whether the transport went on to read the reply's payload
Exchanged(kind, send_seq, status, recv_seq, recv_err, inspected) ==
    /\ last' = [kind |-> kind, send_seq |-> send_seq, status |-> status,
                recv_seq |-> recv_seq, recv_err |-> recv_err, inspected |-> inspected]
    /\ prior_failed' = (prior_failed \/
                          (last.kind # "none" /\
                             ~(last.status = 0 /\ last.recv_seq = last.send_seq
                                 /\ last.recv_err \in {0, 20})))

\* the bytes of the request
RequestBytes == [i \in 1..request_len |-> i]

\* the packet handed to exchange_packet: the template the library prepared
\* for (kind, key, offset, count), the bytes appended to it, and whether
\* the reply passed the checks of exchange_packet
Sent(kind, key, offset, count, payload, passed) ==
    sent' = Append(sent, [kind |-> kind, key |-> key, offset |-> offset, count |-> count,
                          payload |-> payload, passed |-> passed])

NoResp == [status |-> "none", bytes |-> <<>>]

\* make_request returns an error
AttemptErr ==
    /\ resp' = [status |-> "Err", bytes |-> <<>>]
    /\ rpc' = "attempt_done"

\* chif status codes of the model: success and one failure
Statuses == {CHIF_STATUS_CODE_SUCCESS, 1}

DataLens == {0, 3, MaxDataLen}

\* the bytes after the fixed part of a rest reply
Markers == [j \in 1..(MaxBufferSize - RestResponseFixedSize) |-> 200 + j]

\* the bytes of the response blob that a read_fragment reply carries
FragmentPayload(offset, n) ==
    [j \in 1..(IF n <= MaxBufferSize - ResponseHeaderBlobSize - 4
               THEN n ELSE MaxBufferSize - ResponseHeaderBlobSize - 4) |-> 100 + offset + j]

UsesImmediate_AtLimit(len) == len <= MaxWriteSize + ImmediateRequestSize

\* the test of make_request for the single-packet write
UsesImmediate(len) == len < MaxWriteSize + ImmediateRequestSize

WriteCount_Rest(data_length, written) == data_length - written

\* count of one iteration of write_multi_packet
WriteCount(data_length, written) ==
    IF (MaxWriteSize - WriteRequestSize) < (data_length - written)
    THEN MaxWriteSize - WriteRequestSize
    ELSE data_length - written

DeleteKey_Request == "request_key"

\* the key make_request passes to delete_blob_entry
DeleteKey == "response_key"

\* RestClient::exec, top of the retry loop: transport.make_request(&request),
\* which takes the immediate path when the request is shorter than
\* max_write_size + immediate_request_size
Exec_Try ==
    /\ rpc = "loop"
    /\ attempts' = attempts + 1
    /\ last' = NoExchange
    /\ prior_failed' = FALSE
    /\ parsed_rest_resp' = [receive_mode |-> 0, data_len |-> 0]
    /\ blobsize' = 0
    /\ bytes_read' = 0
    /\ read_data_buffer' = <<>>
    /\ bytes_written' = 0
    /\ sent' = <<>>
    /\ resp' = NoResp
    /\ rpc' = IF UsesImmediate(request_len) THEN "immediate" ELSE "create"
    /\ UNCHANGED <<request_len, current_try, final>>
    /\ UNCHANGED <<hiiVars, libVars>>

\* make_request after the rest exchange: parse IloFixedResponse and branch on
\* receive_mode; the immediate branch seeks to rest_response_fixed_size and
\* read_exact()s a vector of rest_response_fixed_size + data_len bytes
ProcessRestResponse(buf) ==
    LET receive_mode == ReadLe(buf, 12, 4)
        data_len == ReadLe(buf, 16, 4)
        wanted == RestResponseFixedSize + data_len.val
    IN  /\ parsed_rest_resp' = [receive_mode |-> receive_mode.val, data_len |-> data_len.val]
        /\ IF ~receive_mode.ok \/ ~data_len.ok THEN AttemptErr
           ELSE IF receive_mode.val = FragmentedResponse
           THEN rpc' = "get_info" /\ UNCHANGED resp
           ELSE IF receive_mode.val = ImmediateResponse
           THEN IF RestResponseFixedSize + wanted > Len(buf)
                THEN AttemptErr
                ELSE /\ resp' = [status |-> "Ok",
                                 bytes |-> SubSeq(buf, RestResponseFixedSize + 1,
                                                  RestResponseFixedSize + wanted)]
                     /\ rpc' = "attempt_done"
           ELSE AttemptErr

\* the single exchange of the immediate path: header template + request
X_Immediate ==
    /\ rpc = "immediate"
    /\ \E status \in Statuses, recv_seq \in Seqs, recv_err \in ErrorCodes,
          mode \in ReceiveModes :
       \E dl \in (IF mode = ImmediateResponse THEN DataLens ELSE {0}) :
         LET buf == ReplyBuf(recv_seq, recv_err,
                             << <<12, ToLeBytes(mode, 4)>>, <<16, ToLeBytes(dl, 4)>>,
                                <<RestResponseFixedSize, Markers>> >>)
             r == exchange_packet(RequestSeq, status, buf)
         IN  /\ Exchanged("rest_immediate", RequestSeq, status, recv_seq, recv_err, r.ok)
             /\ Sent("rest_immediate", "response_key", 0, request_len, RequestBytes, r.ok)
             /\ IF r.ok THEN ProcessRestResponse(r.buf)
                ELSE AttemptErr /\ UNCHANGED parsed_rest_resp
    /\ UNCHANGED <<request_len, current_try, attempts, final, blobsize, bytes_read,
                   read_data_buffer, bytes_written>>
    /\ UNCHANGED <<hiiVars, libVars>>

\* create_blob_entry
X_Create ==
    /\ rpc = "create"
    /\ \E status \in Statuses, recv_seq \in Seqs, recv_err \in ErrorCodes :
         LET r == exchange_packet(RequestSeq, status, ReplyBuf(recv_seq, recv_err, <<>>))
         IN  /\ Exchanged("create_not_blobentry", RequestSeq, status, recv_seq, recv_err, FALSE)
             /\ Sent("create_not_blobentry", "request_key", 0, 0, <<>>, r.ok)
             /\ IF r.ok THEN rpc' = "write_fragment" /\ UNCHANGED resp ELSE AttemptErr
    /\ UNCHANGED <<request_len, current_try, attempts, final, parsed_rest_resp,
                   blobsize, bytes_read, read_data_buffer, bytes_written>>
    /\ UNCHANGED <<hiiVars, libVars>>

\* one iteration of write_multi_packet
X_WriteFragment ==
    /\ rpc = "write_fragment"
    /\ LET count == WriteCount(request_len, bytes_written)
           write_blob_size == bytes_written
       IN  IF bytes_written + count > request_len
           THEN \* data[bytes_written..bytes_written + count] is out of range:
                \* the thread panics before the packet is exchanged
                /\ resp' = [status |-> "Panic", bytes |-> <<>>]
                /\ rpc' = "panicked"
                /\ UNCHANGED <<bytes_written, last, prior_failed, sent>>
           ELSE \E status \in Statuses, recv_seq \in Seqs, recv_err \in ErrorCodes :
                  LET r == exchange_packet(RequestSeq, status, ReplyBuf(recv_seq, recv_err, <<>>))
                  IN  /\ Exchanged("write_fragment", RequestSeq, status, recv_seq, recv_err, FALSE)
                      /\ Sent("write_fragment", "request_key", write_blob_size, count,
                              SubSeq(RequestBytes, bytes_written + 1, bytes_written + count),
                              r.ok)
                      /\ IF r.ok
                         THEN /\ bytes_written' = bytes_written + count
                              /\ rpc' = IF bytes_written + count < request_len
                                        THEN "write_fragment" ELSE "finalize"
                              /\ UNCHANGED resp
                         ELSE AttemptErr /\ UNCHANGED bytes_written
    /\ UNCHANGED <<request_len, current_try, attempts, final, parsed_rest_resp,
                   blobsize, bytes_read, read_data_buffer>>
    /\ UNCHANGED <<hiiVars, libVars>>

\* finalize_multi_packet_write
X_Finalize ==
    /\ rpc = "finalize"
    /\ \E status \in Statuses, recv_seq \in Seqs, recv_err \in ErrorCodes :
         LET r == exchange_packet(RequestSeq, status, ReplyBuf(recv_seq, recv_err, <<>>))
         IN  /\ Exchanged("finalize_blob", RequestSeq, status, recv_seq, recv_err, FALSE)
             /\ Sent("finalize_blob", "request_key", 0, 0, <<>>, r.ok)
             /\ IF r.ok THEN rpc' = "blob_request" /\ UNCHANGED resp ELSE AttemptErr
    /\ UNCHANGED <<request_len, current_try, attempts, final, parsed_rest_resp,
                   blobsize, bytes_read, read_data_buffer, bytes_written>>
    /\ UNCHANGED <<hiiVars, libVars>>

\* the rest request that names the request blob (prepare_blob_request)
X_BlobRequest ==
    /\ rpc = "blob_request"
    /\ \E status \in Statuses, recv_seq \in Seqs, recv_err \in ErrorCodes,
          mode \in ReceiveModes :
       \E dl \in (IF mode = ImmediateResponse THEN DataLens ELSE {0}) :
         LET buf == ReplyBuf(recv_seq, recv_err,
                             << <<12, ToLeBytes(mode, 4)>>, <<16, ToLeBytes(dl, 4)>>,
                                <<RestResponseFixedSize, Markers>> >>)
             r == exchange_packet(RequestSeq, status, buf)
         IN  /\ Exchanged("rest_immediate_blobdesc", RequestSeq, status, recv_seq, recv_err, r.ok)
             /\ Sent("rest_immediate_blobdesc", "request_key", 0, 0, <<>>, r.ok)
             /\ IF r.ok THEN ProcessRestResponse(r.buf)
                ELSE AttemptErr /\ UNCHANGED parsed_rest_resp
    /\ UNCHANGED <<request_len, current_try, attempts, final, blobsize, bytes_read,
                   read_data_buffer, bytes_written>>
    /\ UNCHANGED <<hiiVars, libVars>>

\* get_blob_size: the u32 at response_header_blob_size of the get_info reply;
\* read_multi_packet then loops while bytes_read < data_length
X_GetInfo ==
    /\ rpc = "get_info"
    /\ \E status \in Statuses, recv_seq \in Seqs, recv_err \in ErrorCodes,
          size \in 0..MaxBlob :
         LET buf == ReplyBuf(recv_seq, recv_err,
                             << <<ResponseHeaderBlobSize, ToLeBytes(size, 4)>> >>)
             r == exchange_packet(RequestSeq, status, buf)
             got == ReadLe(r.buf, ResponseHeaderBlobSize, 4)
         IN  /\ Exchanged("get_info", RequestSeq, status, recv_seq, recv_err, r.ok)
             /\ Sent("get_info", "response_key", 0, 0, <<>>, r.ok)
             /\ IF r.ok /\ got.ok
                THEN /\ blobsize' = got.val
                     /\ rpc' = IF 0 < got.val THEN "read_fragment" ELSE "delete"
                     /\ UNCHANGED resp
                ELSE AttemptErr /\ UNCHANGED blobsize
    /\ UNCHANGED <<request_len, current_try, attempts, final, parsed_rest_resp,
                   bytes_read, read_data_buffer, bytes_written>>
    /\ UNCHANGED <<hiiVars, libVars>>

\* read_fragment replies of the attempt that passed the checks and reported
\* 0 bytes: the next request has the same offset
Stalls ==
    Cardinality({i \in DOMAIN sent :
                    /\ sent[i].kind = "read_fragment"
                    /\ sent[i].passed
                    /\ IF i < Len(sent)
                       THEN /\ sent[i + 1].kind = "read_fragment"
                            /\ sent[i + 1].offset = sent[i].offset
                       ELSE bytes_read = sent[i].offset})

\* one iteration of read_multi_packet: the reply says how many bytes it
\* carries (u32 at response_header_blob_size), the payload follows it
X_ReadFragment ==
    /\ rpc = "read_fragment"
    /\ LET count == IF (MaxReadSize - ReadRequestSize) < (blobsize - bytes_read)
                    THEN MaxReadSize - ReadRequestSize
                    ELSE blobsize - bytes_read
       IN \E status \in Statuses, recv_seq \in Seqs, recv_err \in ErrorCodes,
             n \in (IF bytes_read = 0 /\ Stalls < MaxStalls THEN {0} ELSE {}) \cup (1..(count + 1))
                   \cup {MaxBufferSize} :
            LET buf == ReplyBuf(recv_seq, recv_err,
                                << <<ResponseHeaderBlobSize, ToLeBytes(n, 4)>>,
                                   <<ResponseHeaderBlobSize + 4, FragmentPayload(bytes_read, n)>> >>)
                r == exchange_packet(RequestSeq, status, buf)
                fragment_bytes == IF ReadResponseSize > Len(r.buf)
                                  THEN r.buf \o Zeros(ReadResponseSize - Len(r.buf))
                                  ELSE r.buf
                new_read_size == ResponseHeaderBlobSize + 4
                fragment_bytes_read == ReadLe(fragment_bytes, ResponseHeaderBlobSize, 4)
            IN  /\ Exchanged("read_fragment", RequestSeq, status, recv_seq, recv_err, r.ok)
                /\ Sent("read_fragment", "response_key", bytes_read, count, <<>>, r.ok)
                /\ IF ~r.ok \/ ~fragment_bytes_read.ok
                   THEN AttemptErr /\ UNCHANGED <<bytes_read, read_data_buffer>>
                   ELSE IF new_read_size + fragment_bytes_read.val > Len(fragment_bytes)
                   THEN \* the slice is out of range: the thread panics
                        /\ resp' = [status |-> "Panic", bytes |-> <<>>]
                        /\ rpc' = "panicked"
                        /\ UNCHANGED <<bytes_read, read_data_buffer>>
                   ELSE /\ read_data_buffer' = read_data_buffer \o
                              SubSeq(fragment_bytes, new_read_size + 1,
                                     new_read_size + fragment_bytes_read.val)
                        /\ bytes_read' = bytes_read + fragment_bytes_read.val
                        /\ rpc' = IF bytes_read + fragment_bytes_read.val < blobsize
                                  THEN "read_fragment" ELSE "delete"
                        /\ UNCHANGED resp
    /\ UNCHANGED <<request_len, current_try, attempts, final, parsed_rest_resp,
                   blobsize, bytes_written>>
    /\ UNCHANGED <<hiiVars, libVars>>

\* delete_blob_entry for the response key, then Ok(read_bytes)
X_Delete ==
    /\ rpc = "delete"
    /\ \E status \in Statuses, recv_seq \in Seqs, recv_err \in ErrorCodes :
         LET r == exchange_packet(RequestSeq, status, ReplyBuf(recv_seq, recv_err, <<>>))
         IN  /\ Exchanged("delete_blob", RequestSeq, status, recv_seq, recv_err, FALSE)
             /\ Sent("delete_blob", DeleteKey, 0, 0, <<>>, r.ok)
             /\ IF r.ok
                THEN /\ resp' = [status |-> "Ok", bytes |-> read_data_buffer]
                     /\ rpc' = "attempt_done"
                ELSE AttemptErr
    /\ UNCHANGED <<request_len, current_try, attempts, final, parsed_rest_resp,
                   blobsize, bytes_read, read_data_buffer, bytes_written>>
    /\ UNCHANGED <<hiiVars, libVars>>

\* RestClient::exec, the end of a loop iteration:
\* if resp.is_ok() || current_try > MAX_ALLOWED_REQUEST_ATTEMPTS { break resp }
Exec_Check ==
    /\ rpc = "attempt_done"
    /\ IF resp.status = "Ok" \/ current_try > MAX_ALLOWED_REQUEST_ATTEMPTS
       THEN /\ final' = resp
            /\ rpc' = "exec_done"
            /\ UNCHANGED current_try
       ELSE /\ current_try' = current_try + 1
            /\ rpc' = "loop"
            /\ UNCHANGED final
    /\ sent' = <<>>
    /\ UNCHANGED <<request_len, attempts, resp, last, prior_failed, parsed_rest_resp, blobsize, bytes_read, read_data_buffer, bytes_written>>
    /\ UNCHANGED <<hiiVars, libVars>>

RestStart(start) ==
    /\ rpc = start
    /\ current_try = 0
    /\ attempts = 0
    /\ resp = NoResp
    /\ final = NoResp
    /\ last = NoExchange
    /\ prior_failed = FALSE
    /\ parsed_rest_resp = [receive_mode |-> 0, data_len |-> 0]
    /\ blobsize = 0
    /\ bytes_read = 0
    /\ read_data_buffer = <<>>
    /\ bytes_written = 0
    /\ sent = <<>>

InitRest ==
    /\ request_len \in RequestLens
    /\ RestStart("loop")
    /\ LibIdle
    /\ q = CHOOSE qq \in ConcQuestions : TRUE
    /\ texts = {}
    /\ pc = [p \in Procs |-> "off"]
    /\ InitEnv({{}}, {{}}, {InitialFile})
    /\ desc = [p \in Procs |-> NoDesc]

RestNext ==
    \/ Exec_Try
    \/ X_Immediate
    \/ X_Create
    \/ X_WriteFragment
    \/ X_Finalize
    \/ X_BlobRequest
    \/ X_GetInfo
    \/ X_ReadFragment
    \/ X_Delete
    \/ Exec_Check

(***************************************************************************)
(* Properties of the transport and of the retry loop.                      *)
(***************************************************************************)
\* the two per-exchange checks, on the record of an exchange
PassedChecks(x) ==
    /\ x.status = CHIF_STATUS_CODE_SUCCESS
    /\ x.recv_seq = x.send_seq
    /\ x.recv_err \in {Success, NotModified}

AttemptOver == rpc \in {"attempt_done", "loop", "exec_done"}

RestReplyParsed ==
    /\ rpc \in {"attempt_done", "exec_done"}
    /\ last.kind \in {"rest_immediate", "rest_immediate_blobdesc"}
    /\ last.inspected

\* C7: a reply whose payload the transport reads has the sequence number of
\* the packet just sent and error code 0 or 20; a reply that fails either
\* check ends the attempt with an error, its payload unread, and no exchange
\* follows it in that attempt.
C7_ChecksBeforePayload ==
    /\ last.inspected => PassedChecks(last)
    /\ (last.kind # "none" /\ ~PassedChecks(last)) =>
           (AttemptOver /\ resp.status = "Err" /\ ~last.inspected)
    /\ ~prior_failed

\* a later attempt (so an earlier one failed) in which the payload of a
\* NotModified read_fragment reply has been appended
C7_Witness ==
    /\ attempts >= 2
    /\ last.kind = "read_fragment"
    /\ last.inspected
    /\ last.recv_err = NotModified
    /\ bytes_read > 0

\* C8: with receive_mode = 1 a successful make_request returns exactly
\* blobsize bytes, the concatenation of the fragment payloads in order,
\* never shorter or longer than the size get_info announced.
C8_FragmentedExact ==
    (rpc \in {"attempt_done", "exec_done"} /\ resp.status = "Ok"
        /\ parsed_rest_resp.receive_mode = FragmentedResponse) =>
       resp.bytes = [j \in 1..blobsize |-> 100 + j]

\* C9: with receive_mode = 0 make_request returns exactly the data_len bytes
\* at [rest_response_fixed_size, rest_response_fixed_size + data_len) of the
\* reply; a receive_mode other than 0 or 1 makes it fail.
C9_ImmediateExact ==
    RestReplyParsed =>
       /\ parsed_rest_resp.receive_mode = ImmediateResponse =>
             /\ resp.status = "Ok"
             /\ resp.bytes = SubSeq(Markers, 1, parsed_rest_resp.data_len)
       /\ parsed_rest_resp.receive_mode \notin {ImmediateResponse, FragmentedResponse} =>
             resp.status = "Err"

\* C10: one exec calls make_request at most MAX_ALLOWED_REQUEST_ATTEMPTS
\* times; it stops at the first success and returns its bytes, and when
\* every attempt fails it returns the error of the 10th.
C10_BoundedRetry ==
    /\ attempts <= MAX_ALLOWED_REQUEST_ATTEMPTS
    /\ (rpc = "exec_done" /\ final.status = "Ok") => final = resp
    /\ (rpc = "exec_done" /\ final.status = "Err") =>
           attempts = MAX_ALLOWED_REQUEST_ATTEMPTS

\* the kinds of packet that fetch the response
FetchKinds == {"get_info", "read_fragment", "delete_blob"}

\* the packet kinds make_request may issue right after a packet of kind k
Follows(k) ==
    CASE k = "rest_immediate" -> {"get_info"}
      [] k = "create_not_blobentry" -> {"write_fragment"}
      [] k = "write_fragment" -> {"write_fragment", "finalize_blob"}
      [] k = "finalize_blob" -> {"rest_immediate_blobdesc"}
      [] k = "rest_immediate_blobdesc" -> {"get_info"}
      [] k = "get_info" -> {"read_fragment", "delete_blob"}
      [] k = "read_fragment" -> {"read_fragment", "delete_blob"}
      [] OTHER -> {}

\* C21: a request shorter than max_write_size + immediate_request_size is
\* sent in exactly one packet, the immediate header followed by the request
\* bytes; any other request, the one of exactly that length included, is sent
\* as create_not_blobentry, one or more write_fragment, finalize_blob,
\* rest_immediate_blobdesc in this order, each packet only after the previous
\* one passed its checks, and the response is fetched only after the last.
C21_WriteOrder ==
    /\ \A i \in DOMAIN sent : i > 1 =>
          /\ sent[i - 1].passed
          /\ sent[i].kind \in Follows(sent[i - 1].kind)
    /\ (sent # <<>> /\ request_len < MaxWriteSize + ImmediateRequestSize) =>
          /\ sent[1].kind = "rest_immediate"
          /\ sent[1].payload = RequestBytes
    /\ (sent # <<>> /\ request_len >= MaxWriteSize + ImmediateRequestSize) =>
          sent[1].kind = "create_not_blobentry"

C21_Witness ==
    /\ request_len = MaxWriteSize + ImmediateRequestSize
    /\ \E i \in DOMAIN sent : sent[i].kind = "get_info"
    /\ Cardinality({i \in DOMAIN sent : sent[i].kind = "write_fragment"}) > 1

\* the write_fragment packets of the attempt, in order
WriteFragments == SelectSeq(sent, LAMBDA x : x.kind = "write_fragment")

RECURSIVE Concat(_)
Concat(packets) ==
    IF packets = <<>> THEN <<>> ELSE Head(packets).payload \o Concat(Tail(packets))

Min(a, b) == IF a < b THEN a ELSE b

\* C22: with chunk = max_write_size - write_request_size > 0 the i-th
\* write_fragment (from 0) carries offset i * chunk, count
\* min(chunk, len - i * chunk) and exactly that slice of the request; once
\* write_multi_packet has returned there were ceil(len / chunk) of them and
\* their payloads concatenate to the request.
C22_WriteFragments ==
    LET chunk == MaxWriteSize - WriteRequestSize
        len == request_len
    IN  chunk > 0 =>
          /\ \A i \in DOMAIN WriteFragments :
                LET f == WriteFragments[i]
                IN  /\ f.offset = (i - 1) * chunk
                    /\ f.count = Min(chunk, len - (i - 1) * chunk)
                    /\ f.payload = [j \in 1..f.count |-> (i - 1) * chunk + j]
          /\ (\E i \in DOMAIN sent : sent[i].kind = "finalize_blob") =>
                /\ Len(WriteFragments) = (len + chunk - 1) \div chunk
                /\ Concat(WriteFragments) = [j \in 1..len |-> j]

C22_Witness ==
    /\ request_len % (MaxWriteSize - WriteRequestSize) # 0
    /\ \E i \in DOMAIN sent : sent[i].kind = "finalize_blob"
    /\ Len(WriteFragments) > 2

\* the positions of the delete_blob packets of the attempt
Deletes == {i \in DOMAIN sent : sent[i].kind = "delete_blob"}

\* C23: delete_blob is exchanged exactly once in a successful fragmented
\* make_request, for the response key, after the last read_fragment; never
\* when the response is immediate, never for the request key, never in an
\* attempt where get_info or a read_fragment failed; and when delete_blob
\* fails, make_request returns an error.
C23_DeleteOnce ==
    /\ \A i \in Deletes :
          /\ sent[i].key = "response_key"
          /\ i = Len(sent)
          /\ \A j \in 1..(i - 1) : sent[j].passed
          /\ parsed_rest_resp.receive_mode = FragmentedResponse
    /\ (rpc = "attempt_done" /\ resp.status = "Ok") =>
          IF parsed_rest_resp.receive_mode = FragmentedResponse
          THEN Cardinality(Deletes) = 1 /\ sent[Len(sent)].passed
          ELSE Deletes = {}
    /\ (rpc = "attempt_done" /\ Deletes # {} /\ ~sent[Len(sent)].passed) =>
          resp.status = "Err"

C23_Witness ==
    /\ rpc = "attempt_done"
    /\ resp.status = "Ok"
    /\ Deletes # {}
    /\ Cardinality({i \in DOMAIN sent : sent[i].kind = "read_fragment"}) > 1

\* C26: every iteration of the read loop strictly increases bytes_read and
\* every iteration of the write loop strictly increases bytes_written, so an
\* attempt ends after finitely many packets.
C26_LoopsProgress ==
    [][/\ (rpc = "read_fragment" /\ rpc' = "read_fragment") => bytes_read' > bytes_read
       /\ (rpc = "write_fragment" /\ rpc' = "write_fragment") =>
             bytes_written' > bytes_written]_vars

(***************************************************************************)
(* Attribute flags under set_attrs!, clear_attrs! and the guard.           *)
(***************************************************************************)
\* one caller: any flags on the file, macros called on it, then a write
AttrStart ==
    /\ q \in ConcQuestions
    /\ texts = ConcValues
    /\ pc = [p \in Procs |-> IF p = 1 THEN "idle" ELSE "off"]
    /\ InitEnv({{}}, SUBSET {1, FS_IMMUTABLE_FL, FS_NODUMP_FL}, {InitialFile})
    /\ Described

AttrNext == \E p \in Procs : SetAttrs(p) \/ ClearAttrs(p) \/ WriteStep(p)

\* the bits a flag list names
FlagSet(flags) == {flags[i] : i \in 1..Len(flags)}

\* EfivarsImmutabilityGuard::new returned Ok for the caller
GuardCreated(p) ==
    \E i \in 1..Len(log[p]) : log[p][i] = <<"acquire", "EfivarsImmutabilityGuard">>

\* C19: after set_attrs! the flags are the flags before plus the named bits,
\* after clear_attrs! the flags before minus the named bits (so nothing
\* changes when the bits already are as requested); the guard names only
\* FS_IMMUTABLE_FL and writes the flags only when the file was immutable
\* when the guard was created.
C19_ExactBits ==
    /\ attr_op.kind = "set" => attrs = attr_op.before \cup FlagSet(attr_op.flags)
    /\ attr_op.kind = "clear" => attrs = attr_op.before \ FlagSet(attr_op.flags)
    /\ attr_op.by = "guard" =>
          /\ attr_op.flags = <<FS_IMMUTABLE_FL>>
          /\ FS_IMMUTABLE_FL \in immutability_attribute_guard[1].attrs_before_writing
    /\ GuardCreated(1) =>
          LET attrs_before_writing == immutability_attribute_guard[1].attrs_before_writing
          IN  /\ attrs \ {FS_IMMUTABLE_FL} = attrs_before_writing \ {FS_IMMUTABLE_FL}
              /\ FS_IMMUTABLE_FL \notin attrs_before_writing =>
                    /\ attrs = attrs_before_writing
                    /\ attr_op.by # "guard"

\* the guard dropped after a write to a file made immutable by set_attrs!,
\* with another flag set on the file
C19_Witness ==
    /\ attr_op.by = "guard"
    /\ attr_op.kind = "set"
    /\ FS_NODUMP_FL \in attrs
    /\ attr_writes > 2

(***************************************************************************)
(* handle_form_package: the IFR operations of a form package become a tree. *)
(***************************************************************************)
DUMMY_OPCODE == 255

\* the root element handle_form_package starts from
RootNode == [op_code |-> DUMMY_OPCODE, open_scope |-> FALSE, parent |-> 0, children |-> <<>>]

\* op codes an IFROperation read from the package can carry: FormSet, Form,
\* OneOf, OneOfOption and the unknown byte 0xFF (IFR:End is handled apart)
IfrOpCodes == {14, 1, 5, 9, DUMMY_OPCODE}
IFR_End == 41

AttachParent_Root(scope) == 1

\* current_node.parent = Some(Rc::downgrade(&current_scope))
AttachParent(scope) == scope

\* nothing is being written or requested while a package is parsed
HiiIdle ==
    /\ q = CHOOSE qq \in ConcQuestions : TRUE
    /\ texts = {}
    /\ pc = [p \in Procs |-> "off"]
    /\ InitEnv({{}}, {{}}, {InitialFile})
    /\ desc = [p \in Procs |-> NoDesc]

RestIdle ==
    /\ request_len = 2
    /\ RestStart("off")

IfrFrame ==
    UNCHANGED <<hiiVars, restVars, db_input, db_pos, db_strings, db_forms, db_status,
                str_blocks, string_id_current, string_map, str_status,
                tr_question, tr_answer, tr_out, extVars>>

\* the operation read is IFR:End: leave the current scope; the package is
\* parsed when the scope reached carries the dummy op code
Ifr_End ==
    /\ ifr_status = "parsing"
    /\ LET parent == nodes[current_scope].parent
           scope == IF parent # 0 THEN parent ELSE current_scope
       IN  /\ current_scope' = scope
           /\ ifr_status' = IF nodes[scope].op_code = DUMMY_OPCODE THEN "done" ELSE "parsing"
    /\ ifr_input' = Append(ifr_input, [op_code |-> IFR_End, open_scope |-> FALSE])
    /\ UNCHANGED nodes
    /\ IfrFrame

\* any other operation: handle_opcode, push it to the children of the
\* current scope, set its parent, and enter it when it opens a scope
Ifr_Attach ==
    /\ ifr_status = "parsing"
    /\ Len(nodes) < MaxNodes
    /\ \E op \in IfrOpCodes, open \in BOOLEAN :
         LET idx == Len(nodes) + 1
             node == [op_code |-> op, open_scope |-> open,
                      parent |-> AttachParent(current_scope), children |-> <<>>]
             pushed == [nodes EXCEPT ![current_scope].children = Append(@, idx)]
         IN  /\ nodes' = Append(pushed, node)
             /\ current_scope' = IF open THEN idx ELSE current_scope
             /\ ifr_input' = Append(ifr_input, [op_code |-> op, open_scope |-> open])
    /\ UNCHANGED ifr_status
    /\ IfrFrame

\* the operation cannot be read or handle_opcode fails: Err is returned and
\* the tree built so far is dropped with root
Ifr_Fail ==
    /\ ifr_status = "parsing"
    /\ ifr_status' = "err"
    /\ nodes' = <<>>
    /\ current_scope' = 0
    /\ UNCHANGED ifr_input
    /\ IfrFrame

InitIfr ==
    /\ nodes = <<RootNode>>
    /\ current_scope = 1
    /\ ifr_status = "parsing"
    /\ ifr_input = <<>>
    /\ DbIdle /\ StrIdle /\ TrIdle /\ ExtIdle
    /\ HiiIdle
    /\ RestIdle

IfrNext == Ifr_End \/ Ifr_Attach \/ Ifr_Fail

\* number of times node i occurs in a children vector
Occurrences(children, i) == Cardinality({k \in 1..Len(children) : children[k] = i})

RECURSIVE Owned(_, _)
\* node i is kept alive by a chain of children vectors that starts at root
Owned(i, fuel) ==
    \/ i = 1
    \/ /\ fuel > 0
       /\ \E p \in 1..Len(nodes) : Occurrences(nodes[p].children, i) > 0 /\ Owned(p, fuel - 1)

\* C16: while a form package is parsed and when it is returned, root has no
\* parent and every other node's parent is a live node whose children
\* contain that node exactly once (and no other node's children contain it).
C16_BackReferences ==
    ifr_status \in {"parsing", "done"} =>
       /\ nodes[1].parent = 0
       /\ \A i \in 2..Len(nodes) :
             /\ nodes[i].parent \in 1..Len(nodes)
             /\ Owned(nodes[i].parent, MaxNodes)
             /\ \A p \in 1..Len(nodes) :
                   Occurrences(nodes[p].children, i) = IF p = nodes[i].parent THEN 1 ELSE 0
       /\ current_scope \in 1..Len(nodes)

\* a package parsed to its end whose tree is three levels deep
C16_Witness ==
    /\ ifr_status = "done"
    /\ \E i, j \in 2..Len(nodes) : nodes[i].parent = j /\ nodes[j].parent # 1
    /\ \E p \in 1..Len(nodes) : Len(nodes[p].children) >= 2

\* the bracket structure of a sequence of operations: the parent of every
\* node (root first), the scopes left open, innermost last, and the position
\* of the first End after which no scope is open (0 when there is none)
RECURSIVE Brackets(_)
Brackets(input) ==
    IF input = <<>> THEN [parents |-> <<0>>, open |-> <<1>>, ended |-> 0]
    ELSE LET n == Len(input)
             b == Brackets(SubSeq(input, 1, n - 1))
             op == input[n]
         IN  IF op.op_code = IFR_End
             THEN LET left == IF Len(b.open) > 1 THEN SubSeq(b.open, 1, Len(b.open) - 1)
                              ELSE b.open
                  IN  [parents |-> b.parents, open |-> left,
                       ended |-> IF b.ended = 0 /\ Len(left) = 1 THEN n ELSE b.ended]
             ELSE [parents |-> Append(b.parents, b.open[Len(b.open)]),
                   open |-> IF op.open_scope THEN Append(b.open, Len(b.parents) + 1)
                            ELSE b.open,
                   ended |-> b.ended]

\* C24: the tree handle_form_package builds is the bracket structure of the
\* operations it read: every operation other than End is the last child of
\* the innermost open scope, one with the open-scope bit becomes the
\* innermost scope, an End closes the innermost scope and is no node, and
\* parsing stops at the first End after which no scope is open; a package
\* that starts with a scope-opening FormSet gives a root with that one child.
C24_BracketTree ==
    ifr_status \in {"parsing", "done"} =>
       LET b == Brackets(ifr_input)
       IN  /\ Len(nodes) = Len(b.parents)
           /\ \A i \in DOMAIN nodes :
                 /\ nodes[i].parent = b.parents[i]
                 /\ {nodes[i].children[k] : k \in DOMAIN nodes[i].children} =
                       {j \in DOMAIN b.parents : b.parents[j] = i}
                 /\ \A k \in 1..(Len(nodes[i].children) - 1) :
                       nodes[i].children[k] < nodes[i].children[k + 1]
           /\ ifr_status = "parsing" => (b.ended = 0 /\ current_scope = b.open[Len(b.open)])
           /\ ifr_status = "done" => b.ended = Len(ifr_input)
           /\ (ifr_status = "done" /\ ifr_input[1].op_code = 14 /\ ifr_input[1].open_scope) =>
                 nodes[1].children = <<2>>

\* C30: parsing stops only when an End makes the synthetic root the current
\* scope; a parsed operation with op code 0xFF that opens a scope is a scope
\* like any other, and an End that returns to it does not end parsing.
C30_StopsAtRoot ==
    ifr_status = "done" => current_scope = 1

(***************************************************************************)
(* read_db: package lists become the strings and forms maps of ParsedHiiDB. *)
(***************************************************************************)
\* package list GUIDs of the model
Guids == {"A", "B"}

\* packages of the model: a Strings or a Form package that parses, one that
\* does not, and a package of a type read_db skips (fonts, images, ...)
PackageKinds == {"Strings", "Form", "Font", "BadStrings", "BadForm"}

PackageSeqs == {<<>>} \cup {<<a>> : a \in PackageKinds}
                  \cup {<<a, b>> : a \in PackageKinds, b \in {"Strings", "Form", "BadForm"}}

PackageLists == [guid : Guids, packages : PackageSeqs]

Databases == UNION {[1..n -> PackageLists] : n \in 0..MaxLists}

\* HashMap::insert
Insert(map, key, value) ==
    [k \in DOMAIN map \cup {key} |-> IF k = key THEN value ELSE map[k]]

\* number of packages of the kind in the package list
CountKind(packages, kind) == Cardinality({i \in 1..Len(packages) : packages[i] = kind})

\* the handler of some package of the list returns Err
HasBadPackage(packages) ==
    \E i \in 1..Len(packages) : packages[i] \in {"BadStrings", "BadForm"}

DbFrame ==
    UNCHANGED <<hiiVars, restVars, nodes, current_scope, ifr_status, ifr_input,
                str_blocks, string_id_current, string_map, str_status,
                tr_question, tr_answer, tr_out, extVars>>

\* get_package_lists(source)? fails on a malformed database
Db_BadSource ==
    /\ db_status = "reading"
    /\ db_pos = 0
    /\ db_status' = "err"
    /\ UNCHANGED <<db_input, db_pos, db_strings, db_forms>>
    /\ DbFrame

\* one package list: its packages in order, then the two inserts
Db_PackageList ==
    /\ db_status = "reading"
    /\ db_pos < Len(db_input)
    /\ LET package_list == db_input[db_pos + 1]
           package_list_string_maps == CountKind(package_list.packages, "Strings")
           roots == CountKind(package_list.packages, "Form")
       IN  IF HasBadPackage(package_list.packages)
           THEN /\ db_status' = "err"
                /\ db_strings' = <<>>
                /\ db_forms' = <<>>
           ELSE /\ db_strings' = IF package_list_string_maps # 0
                                 THEN Insert(db_strings, package_list.guid,
                                             package_list_string_maps)
                                 ELSE db_strings
                /\ db_forms' = IF roots # 0
                               THEN Insert(db_forms, package_list.guid, roots)
                               ELSE db_forms
                /\ UNCHANGED db_status
    /\ db_pos' = db_pos + 1
    /\ UNCHANGED db_input
    /\ DbFrame

\* Ok(res)
Db_Return ==
    /\ db_status = "reading"
    /\ db_pos = Len(db_input)
    /\ db_status' = "done"
    /\ UNCHANGED <<db_input, db_pos, db_strings, db_forms>>
    /\ DbFrame

\* list_questions and HiiBackend::set: for every key of forms,
\* strings.get(&guid).context(..)?
Db_ListQuestions ==
    /\ db_status = "done"
    /\ db_status' = IF \A guid \in DOMAIN db_forms : guid \in DOMAIN db_strings
                    THEN "listed" ELSE "list_err"
    /\ UNCHANGED <<db_input, db_pos, db_strings, db_forms>>
    /\ DbFrame

InitDb ==
    /\ db_input \in Databases
    /\ db_pos = 0
    /\ db_strings = <<>>
    /\ db_forms = <<>>
    /\ db_status = "reading"
    /\ IfrIdle /\ StrIdle /\ TrIdle /\ ExtIdle
    /\ HiiIdle
    /\ RestIdle

DbNext == Db_BadSource \/ Db_PackageList \/ Db_Return \/ Db_ListQuestions

\* C17: when read_db returns Ok, every GUID key of forms is a key of
\* strings, so list_questions and set find the string packages of every
\* package list that has forms.
C17_FormsHaveStrings ==
    /\ db_status = "done" => \A guid \in DOMAIN db_forms : guid \in DOMAIN db_strings
    /\ db_status # "list_err"

(***************************************************************************)
(* handle_string_package: string blocks become the map string id -> text.  *)
(* The blocks read are kept run-length encoded: a run is `times` equal     *)
(* blocks in a row, each handled by one iteration of the loop.             *)
(***************************************************************************)
MaxI32 == 2147483647

\* string_id_current += n on an i32: the sum when it fits, the wrapped sum
\* (and the fact that it wrapped) when it does not
AddI32(r, n) ==
    IF r.id > MaxI32 - n
    THEN [id |-> r.id - MaxI32 - 1 + n - MaxI32 - 1, overflow |-> TRUE]
    ELSE [id |-> r.id + n, overflow |-> r.overflow]

RECURSIVE SkipBlocks(_, _, _)
\* `times` Skip blocks of the same count, one after the other
SkipBlocks(r, count, times) ==
    IF times = 0 THEN r
    ELSE IF times = 1 THEN AddI32(r, count)
    ELSE LET half == SkipBlocks(r, count, times \div 2)
         IN  IF half.overflow \in BOOLEAN
             THEN SkipBlocks(half, count, times - times \div 2)
             ELSE half

\* the Skip1 (u8 count) and Skip2 (u16 count) runs of the model
SkipRuns ==
    {[tag |-> "Skip1", count |-> c, times |-> 1] : c \in {0, 2}}
    \cup {[tag |-> "Skip2", count |-> c, times |-> 1] : c \in {0, 3}}
    \cup {[tag |-> "Skip2", count |-> 65535, times |-> LongRun]}

StrFrame ==
    UNCHANGED <<hiiVars, restVars, nodes, current_scope, ifr_status, ifr_input,
                db_input, db_pos, db_strings, db_forms, db_status,
                tr_question, tr_answer, tr_out, extVars>>

\* StringBlockType::StringUcs2: the string is stored under string_id_current
Str_StringUcs2 ==
    /\ str_status = "parsing"
    /\ Len(str_blocks) < MaxBlocks
    /\ string_id_current < MaxI32
    /\ str_blocks' = Append(str_blocks, [tag |-> "StringUcs2", count |-> 0, times |-> 1])
    /\ string_map' = Insert(string_map, string_id_current, Len(str_blocks) + 1)
    /\ string_id_current' = string_id_current + 1
    /\ UNCHANGED str_status
    /\ StrFrame

\* StringBlockType::Skip2 and Skip1: string_id_current += skip_count as i32;
\* when the sum leaves the i32 range the addition panics (overflow checks
\* on) or wraps (overflow checks off)
Str_Skip ==
    /\ str_status = "parsing"
    /\ Len(str_blocks) < MaxBlocks
    /\ \E run \in SkipRuns :
         LET r == SkipBlocks([id |-> string_id_current, overflow |-> FALSE],
                             run.count, run.times)
         IN  /\ str_blocks' = Append(str_blocks, run)
             /\ \E overflow_checks \in {r.overflow, FALSE} :
                  IF overflow_checks
                  THEN /\ str_status' = "panic"
                       /\ string_map' = <<>>
                       /\ UNCHANGED string_id_current
                  ELSE /\ string_id_current' = r.id
                       /\ UNCHANGED <<str_status, string_map>>
    /\ StrFrame

\* StringBlockType::End: Ok(string_map)
Str_End ==
    /\ str_status = "parsing"
    /\ str_status' = "done"
    /\ str_blocks' = Append(str_blocks, [tag |-> "End", count |-> 0, times |-> 1])
    /\ UNCHANGED <<string_id_current, string_map>>
    /\ StrFrame

\* any other block type: Err("Unhandled block type")
Str_Unhandled ==
    /\ str_status = "parsing"
    /\ str_status' = "err"
    /\ str_blocks' = Append(str_blocks, [tag |-> "Duplicate", count |-> 0, times |-> 1])
    /\ string_map' = <<>>
    /\ UNCHANGED string_id_current
    /\ StrFrame

\* the block type, the string or the skip count cannot be read
Str_ReadError ==
    /\ str_status = "parsing"
    /\ str_status' = "err"
    /\ string_map' = <<>>
    /\ UNCHANGED <<str_blocks, string_id_current>>
    /\ StrFrame

\* the header has been read
InitStr ==
    /\ str_blocks = <<>>
    /\ string_id_current = 1
    /\ string_map = <<>>
    /\ str_status = "parsing"
    /\ IfrIdle /\ DbIdle /\ TrIdle /\ ExtIdle
    /\ HiiIdle
    /\ RestIdle

StrNext == Str_StringUcs2 \/ Str_Skip \/ Str_End \/ Str_Unhandled \/ Str_ReadError

\* sum of two naturals, TooBig when it does not fit 32 bits
SatAdd(a, b) == IF a = TooBig \/ b = TooBig \/ a > MaxI32 - b THEN TooBig ELSE a + b

\* product of two naturals, TooBig when it does not fit 32 bits
SatMul(a, b) == IF a = 0 \/ b = 0 THEN 0 ELSE IF a > MaxI32 \div b THEN TooBig ELSE a * b

RECURSIVE IdsBefore(_)
\* number of StringUcs2 blocks plus the sum of the counts of the Skip blocks
\* among the first n blocks read
IdsBefore(n) ==
    IF n = 0 THEN 0
    ELSE LET b == str_blocks[n]
         IN  SatAdd(IdsBefore(n - 1),
                    IF b.tag = "StringUcs2" THEN 1
                    ELSE IF b.tag \in {"Skip1", "Skip2"} THEN SatMul(b.count, b.times)
                    ELSE 0)

StringBlocks == {i \in 1..Len(str_blocks) : str_blocks[i].tag = "StringUcs2"}

\* C18: while a Strings package is decoded and when its map is returned,
\* there is exactly one entry per StringUcs2 block, the id of each is
\* 1 + (StringUcs2 blocks before it) + (sum of the Skip counts before it),
\* the ids increase with the blocks, and a Skip of count 0 changes nothing.
C18_StringIds ==
    str_status \in {"parsing", "done"} =>
       /\ Cardinality(DOMAIN string_map) = Cardinality(StringBlocks)
       /\ \A id \in DOMAIN string_map :
             /\ string_map[id] \in StringBlocks
             /\ id = SatAdd(1, IdsBefore(string_map[id] - 1))
       /\ \A a, b \in DOMAIN string_map : string_map[a] < string_map[b] => a < b

(***************************************************************************)
(* The translation frontend.  The table is the static map translation_db,  *)
(* keyed by canonical question name; each entry has an optional HII mapping *)
(* (question_variations, answer_replacements: canonical -> spellings) and   *)
(* an optional iLO mapping (question, answer_replacements: canonical ->     *)
(* spelling).                                                              *)
(***************************************************************************)
Absent == [present |-> FALSE]

\* the table of the model: "Ht" with both mappings, "Tpm" with an iLO
\* mapping only
translation_db ==
    ( <<"H", "t">> :>
        [hii_question |->
            [present |-> TRUE,
             question_variations |-> { <<"H", "-", "T">>, <<"L", "P">> },
             answer_replacements |->
                ( <<"O", "n">> :> { <<"O", "n">>, <<"E", "n">> } @@
                  <<"O", "f", "f">> :> { <<"O", "f", "f">>, <<"D", "i", "s">> } )],
         ilo_question |->
            [present |-> TRUE,
             question |-> <<"P", "r", "o", "c", "H", "t">>,
             answer_replacements |->
                ( <<"O", "n">> :> <<"Y", "e", "s">> @@
                  <<"O", "f", "f">> :> <<"N", "o">> )]] ) @@
    ( <<"T", "p", "m">> :>
        [hii_question |-> Absent,
         ilo_question |->
            [present |-> TRUE,
             question |-> <<"T", "p", "m", "S">>,
             answer_replacements |-> ( <<"O", "n">> :> <<"P", "O", "n">> )]] )

\* questions and answers passed to the frontend
TrQuestions ==
    { <<"H", "t">>, <<"h", "t">>, <<"H", "T">>, <<"T", "p", "m">>, <<"t", "p", "m">>,
      <<"X">>, <<"x">> }

TrAnswers ==
    { <<"O", "n">>, <<"o", "n">>, <<"O", "N">>, <<"E", "n">>, <<"e", "N">>,
      <<"Y", "e", "s">>, <<"y", "e", "s">>, <<"Z">>, <<"z">> }

Backends == {"Hii", "Ilo", "Unknown"}

\* translation_db.get(question)
DbGet(question) ==
    IF question \in DOMAIN translation_db
    THEN [found |-> TRUE, mapping |-> translation_db[question]]
    ELSE [found |-> FALSE]

\* keys of answer_replacements equal to the answer, ignoring ASCII case
MatchingKeys(answer_replacements, real_answer) ==
    {key \in DOMAIN answer_replacements : eq_ignore_ascii_case(key, real_answer)}

get_qa_variations_hii(question, real_answer) ==
    LET got == DbGet(question)
    IN  IF got.found /\ got.mapping.hii_question.present
           /\ got.mapping.hii_question.question_variations # {}
        THEN LET m == got.mapping.hii_question
                 keys == MatchingKeys(m.answer_replacements, real_answer)
             IN  [status |-> "Translated",
                  question_variations |-> m.question_variations,
                  answer_variations |->
                     IF keys # {} THEN m.answer_replacements[CHOOSE k \in keys : TRUE]
                     ELSE {real_answer}]
        ELSE [status |-> "NotTranslated",
              question_variations |-> {question},
              answer_variations |-> {real_answer}]

get_qa_variations_ilo(question, real_answer) ==
    LET got == DbGet(question)
    IN  IF got.found /\ got.mapping.ilo_question.present
        THEN LET m == got.mapping.ilo_question
                 keys == MatchingKeys(m.answer_replacements, real_answer)
             IN  [status |-> "Translated",
                  question |-> m.question,
                  answer |-> IF keys # {} THEN m.answer_replacements[CHOOSE k \in keys : TRUE]
                             ELSE real_answer]
        ELSE [status |-> "NotTranslated", question |-> question, answer |-> real_answer]

translate_response(question, real_answer, backend) ==
    LET got == DbGet(question)
    IN  IF ~got.found THEN real_answer
        ELSE IF backend = "Hii" /\ got.mapping.hii_question.present
        THEN LET r == got.mapping.hii_question.answer_replacements
                 keys == {key \in DOMAIN r :
                             \E replacement \in r[key] :
                                eq_ignore_ascii_case(replacement, real_answer)}
             IN  IF keys # {} THEN CHOOSE k \in keys : TRUE ELSE real_answer
        ELSE IF backend = "Ilo" /\ got.mapping.ilo_question.present
        THEN LET r == got.mapping.ilo_question.answer_replacements
                 keys == {key \in DOMAIN r : eq_ignore_ascii_case(r[key], real_answer)}
             IN  IF keys # {} THEN CHOOSE k \in keys : TRUE ELSE real_answer
        ELSE real_answer

\* the function named, applied
Translate(fn, question, real_answer) ==
    IF fn = "get_qa_variations_hii" THEN get_qa_variations_hii(question, real_answer)
    ELSE IF fn = "get_qa_variations_ilo" THEN get_qa_variations_ilo(question, real_answer)
    ELSE IF fn = "translate_response_hii" THEN translate_response(question, real_answer, "Hii")
    ELSE IF fn = "translate_response_ilo" THEN translate_response(question, real_answer, "Ilo")
    ELSE translate_response(question, real_answer, "Unknown")

TrFrame ==
    UNCHANGED <<hiiVars, restVars, nodes, current_scope, ifr_status, ifr_input,
                db_input, db_pos, db_strings, db_forms, db_status,
                str_blocks, string_id_current, string_map, str_status,
                tr_question, tr_answer, extVars>>

Tr_get_qa_variations_hii ==
    /\ tr_out' = [fn |-> "get_qa_variations_hii",
                  result |-> get_qa_variations_hii(tr_question, tr_answer)]
    /\ TrFrame

Tr_get_qa_variations_ilo ==
    /\ tr_out' = [fn |-> "get_qa_variations_ilo",
                  result |-> get_qa_variations_ilo(tr_question, tr_answer)]
    /\ TrFrame

Tr_translate_response ==
    /\ \E backend \in Backends :
         tr_out' = [fn |-> IF backend = "Hii" THEN "translate_response_hii"
                           ELSE IF backend = "Ilo" THEN "translate_response_ilo"
                           ELSE "translate_response",
                    result |-> translate_response(tr_question, tr_answer, backend)]
    /\ TrFrame

InitTr ==
    /\ tr_question \in TrQuestions
    /\ tr_answer \in TrAnswers
    /\ tr_out = NoTranslation
    /\ IfrIdle /\ DbIdle /\ StrIdle /\ ExtIdle
    /\ HiiIdle
    /\ RestIdle

TrNext == Tr_get_qa_variations_hii \/ Tr_get_qa_variations_ilo \/ Tr_translate_response

\* a result with the letter case of its texts folded, so that an input
\* handed back unchanged compares equal whatever its case
FoldCase(fn, res) ==
    IF fn = "get_qa_variations_hii"
    THEN [status |-> res.status,
          question_variations |-> {to_ascii_lowercase(t) : t \in res.question_variations},
          answer_variations |-> {to_ascii_lowercase(t) : t \in res.answer_variations}]
    ELSE IF fn = "get_qa_variations_ilo"
    THEN [status |-> res.status,
          question |-> to_ascii_lowercase(res.question),
          answer |-> to_ascii_lowercase(res.answer)]
    ELSE to_ascii_lowercase(res)

\* C20: the result of a translation function is, up to the letter case of
\* texts it hands back, the result it gives for every question and answer
\* that differ from its arguments only in ASCII letter case.
C20_CaseInsensitive ==
    tr_out.fn # "none" =>
       \A question \in TrQuestions, real_answer \in TrAnswers :
          (eq_ignore_ascii_case(question, tr_question)
              /\ eq_ignore_ascii_case(real_answer, tr_answer)) =>
             FoldCase(tr_out.fn, Translate(tr_out.fn, question, real_answer))
                = FoldCase(tr_out.fn, tr_out.result)

(***************************************************************************)
(* Length fields: PackageList, Package and IFROperation.                   *)
(***************************************************************************)
\* largest length field of the model
MaxLength == 24

\* bytes the cursor of the model may hold after the fixed fields
Avails == {0, 8, 300}

\* a - b in an unsigned type of the given width, as [wrapped, hi, lo] with
\* the value hi * 65536 + lo (a and b below 65536)
WrappingSub(a, b, width) ==
    IF a >= b THEN [wrapped |-> FALSE, hi |-> 0, lo |-> a - b]
    ELSE IF width = 8 THEN [wrapped |-> TRUE, hi |-> 0, lo |-> 256 + a - b]
    ELSE [wrapped |-> TRUE, hi |-> 65535, lo |-> 65536 + a - b]

\* #[br(count = length - fixed)] data: Vec<u8>: the subtraction is done in
\* the type of length; when it overflows the build with overflow checks
\* panics and the one without wraps; the read fails when the cursor holds
\* fewer than count bytes
ReadCounted(length, fixed, width, avail, checks) ==
    LET count == WrappingSub(length, fixed, width)
    IN  IF count.wrapped /\ checks THEN [status |-> "Panic", count |-> 0]
        ELSE IF count.hi = 0 /\ count.lo <= avail
        THEN [status |-> "Ok", count |-> count.lo]
        ELSE [status |-> "Err", count |-> 0]

LenFrame ==
    UNCHANGED <<hiiVars, restVars, nodes, current_scope, ifr_status, ifr_input,
                db_input, db_pos, db_strings, db_forms, db_status,
                str_blocks, string_id_current, string_map, str_status,
                tr_question, tr_answer, tr_out, chifVars, setVars>>

\* PackageList: guid (16 bytes), length: u32, count = length - 16 - 4
Read_PackageList ==
    /\ len_out = NoRead
    /\ len_out' = [kind |-> "PackageList", fixed |-> 20,
                   read |-> ReadCounted(len_length, 20, 32, len_avail, len_checks)]
    /\ UNCHANGED <<len_length, len_avail, len_checks>>
    /\ LenFrame

\* Package: length: u32 masked to 24 bits, package_type, count = length - 4
Read_Package ==
    /\ len_out = NoRead
    /\ len_out' = [kind |-> "Package", fixed |-> 4,
                   read |-> ReadCounted(len_length % 16777216, 4, 32, len_avail, len_checks)]
    /\ UNCHANGED <<len_length, len_avail, len_checks>>
    /\ LenFrame

\* IFROperation: op_code, length: u8 masked to 7 bits, count = length - 2
Read_IFROperation ==
    /\ len_out = NoRead
    /\ len_out' = [kind |-> "IFROperation", fixed |-> 2,
                   read |-> ReadCounted(len_length % 128, 2, 8, len_avail, len_checks)]
    /\ UNCHANGED <<len_length, len_avail, len_checks>>
    /\ LenFrame

InitLen ==
    /\ len_length \in 0..MaxLength
    /\ len_avail \in Avails
    /\ len_checks \in BOOLEAN
    /\ len_out = NoRead
    /\ ChifIdle /\ SetIdle
    /\ IfrIdle /\ DbIdle /\ StrIdle /\ TrIdle
    /\ HiiIdle
    /\ RestIdle

LenNext == Read_PackageList \/ Read_Package \/ Read_IFROperation

\* C25: a length field smaller than the fixed part of its structure (20 for
\* a package list, 4 for a package, 2 for an IFR operation) is reported as a
\* parse error: the subtraction never wraps into a payload count and never
\* aborts the process.
C25_UnderflowIsError ==
    (len_out # NoRead /\ len_length < len_out.fixed) => len_out.read.status = "Err"

(***************************************************************************)
(* RestClient::exec and the CHIF handle.                                   *)
(***************************************************************************)
\* exec calls of the model
MaxExecs == 3

ChifFrame ==
    UNCHANGED <<hiiVars, restVars, nodes, current_scope, ifr_status, ifr_input,
                db_input, db_pos, db_strings, db_forms, db_status,
                str_blocks, string_id_current, string_map, str_status,
                tr_question, tr_answer, tr_out, lenVars, setVars>>

\* impl Drop for IloRestChif: (self.close)(self.handle)
DropIloRestChif(handle) ==
    chif_calls' = Append(chif_calls, [fn |-> "ChifClose", handle |-> handle])

\* exec returns: ilo, when it exists, is dropped
Returns(res, ilo_exists) ==
    /\ chif_result' = res
    /\ chif_pc' = "idle"
    /\ chif_handle' = NullHandle
    /\ IF ilo_exists THEN DropIloRestChif(chif_handle) ELSE UNCHANGED chif_calls

\* a caller calls exec
Exec_Call ==
    /\ chif_pc = "idle"
    /\ chif_execs < MaxExecs
    /\ chif_execs' = chif_execs + 1
    /\ chif_pc' = "get_lib"
    /\ chif_result' = "none"
    /\ UNCHANGED <<chif_handle, chif_calls>>
    /\ ChifFrame

\* let lib = get_lib(&(self.lib_path))?
Exec_GetLib ==
    /\ chif_pc = "get_lib"
    /\ \E loaded \in BOOLEAN :
         IF loaded THEN chif_pc' = "new" /\ UNCHANGED <<chif_handle, chif_calls, chif_result>>
         ELSE Returns("Err", FALSE)
    /\ UNCHANGED chif_execs
    /\ ChifFrame

\* let ilo = IloRestChif::new(&lib)?: the symbols are looked up, lib_funcs is
\* built with a null handle, ChifInitialize and ChifCreate are called; when
\* ChifCreate fails new returns Err and lib_funcs is dropped
Exec_New ==
    /\ chif_pc = "new"
    /\ \E symbols \in BOOLEAN, status_code \in {CHIF_STATUS_CODE_SUCCESS, 1} :
         IF ~symbols THEN Returns("Err", FALSE)
         ELSE IF status_code # CHIF_STATUS_CODE_SUCCESS
         THEN /\ chif_calls' = chif_calls \o
                     << [fn |-> "ChifCreate", handle |-> NullHandle],
                        [fn |-> "ChifClose", handle |-> NullHandle] >>
              /\ chif_result' = "Err"
              /\ chif_pc' = "idle"
              /\ UNCHANGED chif_handle
         ELSE /\ chif_calls' = Append(chif_calls, [fn |-> "ChifCreate", handle |-> chif_execs])
              /\ chif_handle' = chif_execs
              /\ chif_pc' = "ping"
              /\ UNCHANGED chif_result
    /\ UNCHANGED chif_execs
    /\ ChifFrame

\* Transport::new(&ilo)? (always Ok), then ilo.ping().map_err(..)?
Exec_Ping ==
    /\ chif_pc = "ping"
    /\ \E status_code \in {CHIF_STATUS_CODE_SUCCESS, 1} :
         IF status_code = CHIF_STATUS_CODE_SUCCESS
         THEN chif_pc' = "set_recv_timeout" /\ UNCHANGED <<chif_handle, chif_calls, chif_result>>
         ELSE Returns("Err", TRUE)
    /\ UNCHANGED chif_execs
    /\ ChifFrame

\* ilo.set_recv_timeout(60000).map_err(..)?
Exec_SetRecvTimeout ==
    /\ chif_pc = "set_recv_timeout"
    /\ \E status_code \in {CHIF_STATUS_CODE_SUCCESS, 1} :
         IF status_code = CHIF_STATUS_CODE_SUCCESS
         THEN chif_pc' = "request" /\ UNCHANGED <<chif_handle, chif_calls, chif_result>>
         ELSE Returns("Err", TRUE)
    /\ UNCHANGED chif_execs
    /\ ChifFrame

\* self.generate_request_bytes(..)?
Exec_GenerateRequest ==
    /\ chif_pc = "request"
    /\ \E generated \in BOOLEAN :
         IF generated
         THEN chif_pc' = "loop" /\ UNCHANGED <<chif_handle, chif_calls, chif_result>>
         ELSE Returns("Err", TRUE)
    /\ UNCHANGED chif_execs
    /\ ChifFrame

\* the retry loop around transport.make_request and the final match: exec
\* returns Ok(resp) or Err
Exec_Respond ==
    /\ chif_pc = "loop"
    /\ \E response \in {"Ok", "Err"} : Returns(response, TRUE)
    /\ UNCHANGED chif_execs
    /\ ChifFrame

InitChif ==
    /\ ChifIdle
    /\ LenIdle /\ SetIdle
    /\ IfrIdle /\ DbIdle /\ StrIdle /\ TrIdle
    /\ HiiIdle
    /\ RestIdle

ChifNext ==
    \/ Exec_Call
    \/ Exec_GetLib
    \/ Exec_New
    \/ Exec_Ping
    \/ Exec_SetRecvTimeout
    \/ Exec_GenerateRequest
    \/ Exec_Respond

\* number of calls of fn with the handle
Calls(fn, handle) ==
    Cardinality({i \in DOMAIN chif_calls :
                    chif_calls[i].fn = fn /\ chif_calls[i].handle = handle})

\* C28: ChifClose is called exactly once for every handle a successful
\* ChifCreate returned, on every exit path of exec, and never with the handle
\* of a failed ChifCreate (the initial null handle).
C28_CloseOnceIfCreated ==
    /\ Calls("ChifClose", NullHandle) = 0
    /\ \A h \in 1..MaxExecs :
          /\ Calls("ChifClose", h) <= Calls("ChifCreate", h)
          /\ (chif_pc = "idle" \/ chif_handle # h) =>
                Calls("ChifClose", h) = Calls("ChifCreate", h)


(***************************************************************************)
(* HiiBackend::set over every form package of the database.                *)
(***************************************************************************)
\* package lists with forms, and form packages per list, of the model
MaxSetLists == 2
MaxSetForms == 2

\* what a form package holds for the question asked: no such question; a
\* question without varstore; a question with options one of which matches
\* the new value; a question with options none of which matches; a numeric
\* question the value fits; a numeric question whose maximum it exceeds
FormKinds == {"absent", "no_varstore", "option", "no_option", "numeric", "exceeds"}

\* the form packages of one GUID and whether parsed_db.strings has the GUID
SetLists ==
    UNION {[strings : BOOLEAN, forms : [1..n -> FormKinds]] : n \in 1..MaxSetForms}

SetDatabases == UNION {[1..n -> SetLists] : n \in 1..MaxSetLists}

SetFrame ==
    UNCHANGED <<hiiVars, restVars, nodes, current_scope, ifr_status, ifr_input,
                db_input, db_pos, db_strings, db_forms, db_status,
                str_blocks, string_id_current, string_map, str_status,
                tr_question, tr_answer, tr_out, lenVars, chifVars>>

\* for (guid, package_list) in parsed_db.forms: parsed_db.strings.get(&guid)
\* .context(..)?, or Ok(SetResponseList) after the last package list
Set_PackageList ==
    /\ set_status = "running"
    /\ set_form = 0
    /\ IF set_list = Len(set_db)
       THEN set_status' = "Ok" /\ UNCHANGED <<set_list, set_form>>
       ELSE IF ~set_db[set_list + 1].strings
       THEN set_status' = "Err_Other" /\ UNCHANGED <<set_list, set_form>>
       ELSE set_list' = set_list + 1 /\ set_form' = 1 /\ UNCHANGED set_status
    /\ UNCHANGED <<set_db, set_written, set_resp>>
    /\ SetFrame

\* one form package: find_question, the option loop or the plain value,
\* change_value(..)?, and the SetResponse pushed when it reports a change;
\* write_at_offset inside change_value may fail
Set_FormPackage ==
    /\ set_status = "running"
    /\ set_form > 0
    /\ LET kind == set_db[set_list].forms[set_form]
           next_form == IF set_form = Len(set_db[set_list].forms) THEN 0 ELSE set_form + 1
       IN  \E written \in BOOLEAN :
             IF kind = "no_option"
             THEN /\ set_status' = "Err_InvalidOption"
                  /\ UNCHANGED <<set_form, set_written, set_resp>>
             ELSE IF kind = "exceeds"
             THEN /\ set_status' = "Err_ExceededMaxValue"
                  /\ UNCHANGED <<set_form, set_written, set_resp>>
             ELSE IF kind \in {"option", "numeric"} /\ ~written
             THEN /\ set_status' = "Err_Other"
                  /\ UNCHANGED <<set_form, set_written, set_resp>>
             ELSE /\ set_form' = next_form
                  /\ set_written' = IF kind \in {"option", "numeric"}
                                    THEN set_written \cup {<<set_list, set_form>>}
                                    ELSE set_written
                  /\ set_resp' = IF kind \in {"option", "numeric"} THEN set_resp + 1
                                 ELSE set_resp
                  /\ UNCHANGED set_status
    /\ UNCHANGED <<set_db, set_list>>
    /\ SetFrame

InitSet ==
    /\ set_db \in SetDatabases
    /\ set_list = 0
    /\ set_form = 0
    /\ set_written = {}
    /\ set_resp = 0
    /\ set_status = "running"
    /\ LenIdle /\ ChifIdle
    /\ IfrIdle /\ DbIdle /\ StrIdle /\ TrIdle
    /\ HiiIdle
    /\ RestIdle

SetNext == Set_PackageList \/ Set_FormPackage

\* C29: HiiBackend.set is all-or-nothing: when it returns an error, the call
\* has modified no varstore.
C29_AllOrNothing ==
    set_status \in {"Err_InvalidOption", "Err_ExceededMaxValue", "Err_Other"} =>
       set_written = {}

(***************************************************************************)
(* Specifications.                                                         *)
(***************************************************************************)
\* one caller of change_value, every question and text, then a read back
InitHii ==
    /\ HiiStart
    /\ request_len = 2
    /\ RestStart("off")
    /\ LibIdle

SpecHii == InitHii /\ [][HiiNext]_vars

\* interleaved callers of write_at_offset
InitConc ==
    /\ ConcStart
    /\ request_len = 2
    /\ RestStart("off")
    /\ LibIdle

SpecConc == InitConc /\ [][ConcNext]_vars

InitQ ==
    /\ QStart
    /\ request_len = 2
    /\ RestStart("off")
    /\ LibIdle

\* HiiBackend.set and get on one question: OneOf, Numeric or CheckBox, with
\* or without its varstore
SpecQ == InitQ /\ [][QNext]_vars

\* one call of RestClient::exec
SpecRest == InitRest /\ [][RestNext]_vars

\* read_db on one database, then list_questions
SpecDb == InitDb /\ [][DbNext]_vars

InitAttr ==
    /\ AttrStart
    /\ RestIdle
    /\ LibIdle

\* set_attrs! / clear_attrs! on the varstore file, then one write to it
SpecAttr == InitAttr /\ [][AttrNext]_vars

\* the translation functions on one question and answer
SpecTr == InitTr /\ [][TrNext]_vars

\* handle_string_package on one Strings package
SpecStr == InitStr /\ [][StrNext]_vars

\* handle_form_package on one form package
SpecIfr == InitIfr /\ [][IfrNext]_vars

\* one length field read as a package list, a package or an IFR operation
SpecLen == InitLen /\ [][LenNext]_vars

\* one call of HiiBackend::set
SpecSet == InitSet /\ [][SetNext]_vars

\* successive calls of RestClient::exec
SpecChif == InitChif /\ [][ChifNext]_vars

====
